---- MODULE Spec2Model ----
(***************************************************************************)
(* Model of the flashlight strobe engine                                   *)
(*   android/app/src/main/java/com/flicker/neural/plugins/StrobeEngine.java*)
(*   android/app/src/main/java/com/flicker/neural/plugins/StrobeEffect.java*)
(*                                                                         *)
(* The engine's methods are translated statement by statement into a       *)
(* small-step program: every thread has a program counter whose labels     *)
(* carry the source line about to be executed ("pause_188" is line 188 of  *)
(* pause()).  One step performs at most one access to a field shared       *)
(* between the caller thread and the StrobeEngineThread.  The sequential   *)
(* specifications run each public method and each timer callback to        *)
(* completion in one action; the concurrent specification interleaves the  *)
(* steps of the two threads.                                               *)
(***************************************************************************)
EXTENDS Integers, Sequences, FiniteSets, TLC

(* ---------------------------------------------------------------- bounds *)
\* number of effects created over a run (their ids are 1..MaxEffects)
MaxEffects == 2
\* wall clock horizon in milliseconds
MaxTime == 6
\* largest number of consecutive torch commands the hardware rejects
MaxFail == 3

(* ------------------------------------------------------------- constants *)
\* executePulseEffect(): if (halfPeriod <= 0) halfPeriod = 50
DefaultPulseMs == 50

Threads == {"caller", "timer"}

(* ------------------------------------------------------------ StrobeEffect *)
EffectType == {"ON", "OFF", "STROBE", "PULSE"}

\* the null reference of type StrobeEffect
NoEffect == [id |-> 0, type |-> "NONE", durationMs |-> 0, frequency |-> 0]

\* new StrobeEffect(type, durationMs, frequency, intensity) followed by setId
StrobeEffect(i, ty, d, f) == [id |-> i, type |-> ty, durationMs |-> d, frequency |-> f]

\* (long)(1000.0 / frequency), 0 when frequency <= 0
getPeriodMs(e) == IF e.frequency <= 0 THEN 0 ELSE 1000 \div e.frequency

getHalfPeriodMs(e) == getPeriodMs(e) \div 2

\* the shapes of effect the callers of the model enqueue: (type, durationMs, frequency)
\* 250 Hz has period 4 ms and half-period 2 ms
EffectShapes ==
    { <<"ON", 2, 0>>, <<"OFF", 1, 0>>, <<"STROBE", 3, 250>>, <<"STROBE", 2, 0>>,
      <<"PULSE", 3, 250>> }

(* --------------------------------------------------------------- runnables *)
\* the null reference of type Runnable
NoRunnable == [rid |-> 0, kind |-> "null", halfPeriod |-> 0, endTime |-> 0, turnOn |-> FALSE]

NoLocals == [method |-> "none", effect |-> NoEffect, effects |-> <<>>, remainingMs |-> 0,
             halfPeriod |-> 0, endTime |-> 0, turnOn |-> FALSE, now |-> 0, delay |-> 0,
             i |-> 0]

(* ------------------------------------------------- StrobeEffect and JSON *)
\* values of an org.json.JSONObject; numbers are held in tenths, so that 10.5 is 105
JString(str) == [t |-> "string", s |-> str, n |-> 0]
JLong(k) == [t |-> "long", s |-> "", n |-> 10 * k]
JDouble(tenths) == [t |-> "double", s |-> "", n |-> tenths]
Null == [t |-> "null", s |-> "", n |-> 0]

EmptyJson == [k \in {} |-> Null]

has(json, k) == k \in DOMAIN json

\* JSONObject.put(name, value): a null value removes the mapping
put(json, k, v) ==
    IF v = Null
    THEN [x \in DOMAIN json \ {k} |-> json[x]]
    ELSE [x \in DOMAIN json \cup {k} |-> IF x = k THEN v ELSE json[x]]

optString(json, k, fallback) ==
    IF has(json, k) /\ json[k].t = "string" THEN json[k].s ELSE fallback

\* (long) of a double truncates towards zero
truncate(tenths) == IF tenths >= 0 THEN (tenths \div 10) * 10 ELSE -(((-tenths) \div 10) * 10)

optLong(json, k, fallback) ==
    IF has(json, k) /\ json[k].t \in {"long", "double"} THEN truncate(json[k].n) ELSE fallback

optDouble(json, k, fallback) ==
    IF has(json, k) /\ json[k].t \in {"long", "double"} THEN json[k].n ELSE fallback

\* the type strings a caller sends, and String.toUpperCase() on them
TypeStrings == {"ON", "OFF", "STROBE", "PULSE", "on", "Strobe", "FLASH"}

toUpperCase(str) ==
    CASE str = "on" -> "ON"
      [] str = "Strobe" -> "STROBE"
      [] OTHER -> str

\* no StrobeEffect object; also what a fromJson that threw leaves behind
NoObject == [id |-> "", type |-> "NONE", durationMs |-> 0, frequency |-> 0, intensity |-> 0]

\* a fromJson that takes the id of the JSON object for absent
fromJsonFreshId(json, generated) ==
    LET typeStr == optString(json, "type", "STROBE")
    IN  IF toUpperCase(typeStr) \notin {"ON", "OFF", "STROBE", "PULSE"}
        THEN NoObject
        ELSE [id |-> generated, type |-> toUpperCase(typeStr),
              durationMs |-> optLong(json, "durationMs", 10000),
              frequency |-> optDouble(json, "frequency", 100),
              intensity |-> optDouble(json, "intensity", 10)]

\* StrobeEffect.fromJson(json), lines 82-97; generated is the id generateId() makes;
\* EffectType.valueOf throws on an unknown name
fromJson(json, generated) ==
    LET typeStr == optString(json, "type", "STROBE")
    IN  IF toUpperCase(typeStr) \notin {"ON", "OFF", "STROBE", "PULSE"}
        THEN NoObject
        ELSE [id |-> IF has(json, "id") THEN optString(json, "id", "null") ELSE generated,
              type |-> toUpperCase(typeStr),
              durationMs |-> optLong(json, "durationMs", 10000),
              frequency |-> optDouble(json, "frequency", 100),
              intensity |-> optDouble(json, "intensity", 10)]

\* StrobeEffect.toJson(), lines 102-110
toJson(e) ==
    LET j1 == put(EmptyJson, "id", JString(e.id))
        j2 == put(j1, "type", JString(e.type))
        j3 == put(j2, "durationMs", [t |-> "long", s |-> "", n |-> e.durationMs])
        j4 == put(j3, "frequency", JDouble(e.frequency))
    IN  put(j4, "intensity", JDouble(e.intensity))

\* new FlashlightService(): the fields cleanup() reads or writes, the plugin methods
\* the latest service call invoked, and how its promise settled
NewService ==
    [isOn |-> FALSE, isAvailable |-> FALSE, initialized |-> FALSE,
     invoked |-> <<>>, outcome |-> "none"]

\* no page is loaded
NoApp == [variant |-> "none", at |-> "", hist |-> <<>>, accepted |-> FALSE, pack |-> "none"]

NoWire == [stage |-> "none", json |-> EmptyJson, effect |-> NoObject, sent |-> NoObject]

(* ------------------------------------------------------------------- state *)
VARIABLES
    hasFlashlight,          \* StrobeEngine.hasFlashlight (cameraId != null as well)
    effectQueue,            \* ConcurrentLinkedQueue<StrobeEffect>
    currentEffect,
    isFlashOn, isPaused, isStopped, isRunning,
    effectStartTime, pausedElapsed,
    state,                  \* EngineState
    currentStrobeRunnable,
    pending,                \* message queue of strobeHandler: <<[r, due]>> in posting order
    torch,                  \* the torch mode the camera service holds
    failBudget,             \* number of coming setTorchMode calls that throw
    thrown,                 \* the class of the exception they throw
    now,                    \* System.currentTimeMillis()
    pc, loc,                \* per thread: next statement, local variables
    op,                     \* the thread and method (or callback) of the latest action
    log,                    \* what the latest action did: events, torch commands, cancellations
    trace,                  \* every effectStarted / effectCompleted delivered so far
    nextId,                 \* id of the next effect to be created
    ran,                    \* milliseconds the engine was RUNNING on the current effect
    pauses,                 \* times the current effect was paused (2 stands for 2 or more)
    calls,                  \* calls the caller thread has made (counted under "conc")
    returned,               \* the method the caller thread last returned from, "none" from its next call on
    service,                \* the FlashlightService object of the web layer
    app,                    \* the React app: where it is, what sessionStorage and PackContext hold
    wire,                   \* an effect on its way through JSON: stage, object, effect
    probe                   \* which of trace ("trace"), ran and pauses ("time"), returned ("conc") are kept

vars == <<hasFlashlight, effectQueue, currentEffect, isFlashOn, isPaused, isStopped,
          isRunning, effectStartTime, pausedElapsed, state, currentStrobeRunnable,
          pending, torch, failBudget, thrown, now, pc, loc, op, log, trace, nextId, ran,
          pauses, calls, returned, probe, wire, service, app>>

Pack ==
    [hasFlashlight |-> hasFlashlight, effectQueue |-> effectQueue,
     currentEffect |-> currentEffect, isFlashOn |-> isFlashOn, isPaused |-> isPaused,
     isStopped |-> isStopped, isRunning |-> isRunning,
     effectStartTime |-> effectStartTime, pausedElapsed |-> pausedElapsed,
     state |-> state, currentStrobeRunnable |-> currentStrobeRunnable,
     pending |-> pending, torch |-> torch, failBudget |-> failBudget, now |-> now,
     thrown |-> thrown,
     pc |-> pc, loc |-> loc, op |-> op, log |-> log, trace |-> trace,
     nextId |-> nextId, ran |-> ran, pauses |-> pauses,
     calls |-> calls, returned |-> returned, probe |-> probe]

UnpackEngine(S) ==
    /\ hasFlashlight' = S.hasFlashlight
    /\ effectQueue' = S.effectQueue
    /\ currentEffect' = S.currentEffect
    /\ isFlashOn' = S.isFlashOn
    /\ isPaused' = S.isPaused
    /\ isStopped' = S.isStopped
    /\ isRunning' = S.isRunning
    /\ effectStartTime' = S.effectStartTime
    /\ pausedElapsed' = S.pausedElapsed
    /\ state' = S.state
    /\ currentStrobeRunnable' = S.currentStrobeRunnable
    /\ pending' = S.pending
    /\ torch' = S.torch
    /\ failBudget' = S.failBudget
    /\ thrown' = IF S.failBudget = 0 THEN "CameraAccessException" ELSE S.thrown
    /\ now' = S.now
    /\ pc' = S.pc
    /\ loc' = S.loc
    /\ op' = S.op
    /\ log' = S.log
    /\ trace' = S.trace
    /\ nextId' = S.nextId
    /\ ran' = IF S.currentEffect = NoEffect THEN 0 ELSE S.ran
    /\ pauses' = IF S.currentEffect = NoEffect THEN 0 ELSE S.pauses
    /\ calls' = S.calls
    /\ returned' = S.returned
    /\ probe' = S.probe

\* a step of the engine leaves the web layer as it is
Unpack(S) == UnpackEngine(S) /\ wire' = wire /\ service' = service /\ app' = app

(* ----------------------------------------------------------------- helpers *)
Max(a, b) == IF a >= b THEN a ELSE b
\* a minimum that does not clamp
FirstOf(a, b) == a

Min(a, b) == IF a <= b THEN a ELSE b

Ev(e, i, s) == [ev |-> e, id |-> i, st |-> s]

TracedEvents == {"effectStarted", "effectCompleted"}

\* bookkeeping of an observable act e of thread t
Record(S, t, e) ==
    [S EXCEPT !.log = Append(@, e),
              !.trace = IF "trace" \in S.probe /\ e.ev \in TracedEvents
                        THEN Append(@, e) ELSE @,
              !.ran = IF e.ev = "effectStarted" THEN 0 ELSE @,
              !.pauses = IF e.ev = "effectStarted" THEN 0
                         ELSE IF "time" \in S.probe /\ e = Ev("stateChanged", 0, "PAUSED")
                         THEN Min(@ + 1, 2)
                         ELSE @]

Goto(S, t, l) == [S EXCEPT !.pc[t] = l]

Return(S, t) ==
    [S EXCEPT !.pc[t] = "idle", !.loc[t] = NoLocals,
              !.returned = IF t = "caller" /\ "conc" \in S.probe THEN S.loc[t].method ELSE @]

\* a NullPointerException: the plugin bridge catches it on the caller thread,
\* on the StrobeEngineThread nothing does and the thread dies
Throw(S, t) ==
    IF t = "caller"
    THEN Return(Record(S, t, Ev("exception", 0, "NullPointerException")), t)
    ELSE [Record(S, t, Ev("exception", 0, "NullPointerException"))
             EXCEPT !.pc[t] = "crashed", !.loc[t] = NoLocals]

(* ------------------------------------------------- listener notifications *)
\* a listener that is not told of the start
notifyStartedNothing(S, t, id) == S

notifyEffectStarted(S, t, id) == Record(S, t, Ev("effectStarted", id, ""))
notifyEffectCompleted(S, t, id) == Record(S, t, Ev("effectCompleted", id, ""))
\* a listener that is not told
notifyNothing(S, t) == S

notifyQueueEmpty(S, t) == Record(S, t, Ev("queueEmpty", 0, ""))
\* an error that is written to logcat and not passed to the listener
logError(S, t, msg) == S

notifyError(S, t, msg) == Record(S, t, Ev("error", 0, msg))

setState(S, t, newState) ==
    Record([S EXCEPT !.state = newState], t, Ev("stateChanged", 0, newState))

(* ------------------------------------------------------------------ Handler *)
UsedRids(S) == {S.currentStrobeRunnable.rid} \cup {S.pending[k].r.rid : k \in 1..Len(S.pending)}

\* a new Runnable object: an identity no live reference holds
NewRunnable(S, k, hp, et, on) ==
    [rid |-> CHOOSE n \in 1..(Len(S.pending) + 2) :
                /\ n \notin UsedRids(S)
                /\ \A m \in 1..(n - 1) : m \in UsedRids(S),
     kind |-> k, halfPeriod |-> hp, endTime |-> et, turnOn |-> on]

\* a postDelayed whose message never arrives
postNever(S, r, delayMs) == S

\* strobeHandler.postDelayed(r, delayMs); a null r is delivered to handleMessage, which does nothing
postDelayed(S, r, delayMs) ==
    IF r = NoRunnable THEN S
    ELSE [S EXCEPT !.pending = Append(@, [r |-> r, due |-> S.now + Max(delayMs, 0)])]

\* a removeCallbacks that leaves r posted
removeNoCallbacks(S, r) == S

\* strobeHandler.removeCallbacks(r); a null r removes nothing
removeCallbacks(S, r) ==
    IF r = NoRunnable THEN S
    ELSE [S EXCEPT !.pending = SelectSeq(@, LAMBDA m : m.r.rid # r.rid)]

\* a cancellation that removes nothing
removeNothing(S) == S

\* strobeHandler.removeCallbacksAndMessages(null)
removeCallbacksAndMessages(S) == [S EXCEPT !.pending = <<>>]

(* ------------------------------------------------------------------ setFlash *)
TorchCmd(on, ok) == Ev("setTorchMode", IF ok THEN 1 ELSE 0, IF on THEN "on" ELSE "off")

setFlash(S, t, on) ==
    IF ~S.hasFlashlight THEN S
    ELSE IF S.failBudget > 0
         THEN LET S1 == Record([S EXCEPT !.failBudget = @ - 1], t, TorchCmd(on, FALSE))
              IN  IF S.thrown = "CameraAccessException"
                  THEN notifyError(S1, t, "Failed to control flashlight")
                  ELSE S1        \* catch (Exception e): Log.e only
         ELSE Record([S EXCEPT !.torch = on, !.isFlashOn = on], t, TorchCmd(on, TRUE))

(* ------------------------------------------------------------ effectQueue *)
\* a queue that inserts at the head
offerFirst(q, e) == <<e>> \o q

\* effectQueue.offer(effect): the tail of the queue
offer(q, e) == Append(q, e)

\* what effectQueue.poll() returns: the head of the queue, null when it is empty
poll(q) == IF q = <<>> THEN NoEffect ELSE Head(q)

\* what effectQueue.poll() leaves
polled(q) == IF q = <<>> THEN q ELSE Tail(q)

(* ------------------------------------------------------ private methods *)
Loc(S, t, f, v) == [S EXCEPT !.loc[t][f] = v]

\* processNextEffect(), lines 274-291
processNextEffect(S, t) ==
    CASE S.pc[t] = "pne_275a" ->
            IF S.isStopped THEN Return(S, t) ELSE Goto(S, t, "pne_275b")
      [] S.pc[t] = "pne_275b" ->
            IF S.isPaused THEN Return(S, t) ELSE Goto(S, t, "pne_277a")
      [] S.pc[t] = "pne_277a" ->          \* effectQueue.poll()
            Goto(Loc([S EXCEPT !.effectQueue = polled(@)], t, "effect", poll(S.effectQueue)),
                 t, "pne_277b")
      [] S.pc[t] = "pne_277b" ->          \* currentEffect = <polled>
            Goto([S EXCEPT !.currentEffect = S.loc[t].effect], t, "pne_279")
      [] S.pc[t] = "pne_279" ->
            IF S.currentEffect = NoEffect THEN Goto(S, t, "pne_281") ELSE Goto(S, t, "pne_288")
      [] S.pc[t] = "pne_281" ->
            Goto([S EXCEPT !.isRunning = FALSE], t, "pne_282")
      [] S.pc[t] = "pne_282" ->
            Return(notifyQueueEmpty(setState(S, t, "IDLE"), t), t)
      [] S.pc[t] = "pne_288" ->
            IF S.currentEffect = NoEffect THEN Throw(S, t)
            ELSE Goto(notifyEffectStarted(S, t, S.currentEffect.id), t, "pne_290a")
      [] S.pc[t] = "pne_290a" ->          \* first argument of executeEffect
            Goto(Loc(S, t, "effect", S.currentEffect), t, "pne_290b")
      [] S.pc[t] = "pne_290b" ->          \* second argument: currentEffect.getDurationMs()
            IF S.currentEffect = NoEffect THEN Throw(S, t)
            ELSE Goto(Loc(S, t, "remainingMs", S.currentEffect.durationMs), t, "exec_294")

\* executeEffect(effect, remainingMs), lines 293-310
executeEffect(S, t) ==
    LET S1 == [S EXCEPT !.effectStartTime = S.now]
        ty == S.loc[t].effect.type
    IN  CASE ty = "ON"     -> Goto(S1, t, "on_313")
          [] ty = "OFF"    -> Goto(S1, t, "off_318")
          [] ty = "STROBE" -> Goto(S1, t, "strobe_337")
          [] ty = "PULSE"  -> Goto(S1, t, "pulse_323")
          [] OTHER         -> Throw(S1, t)      \* effect.getType() on null

\* executeOnEffect(durationMs), lines 312-315
executeOnEffect(S, t) == Goto(setFlash(S, t, TRUE), t, "sched_370")

\* executeOffEffect(durationMs), lines 317-320
executeOffEffect(S, t) == Goto(setFlash(S, t, FALSE), t, "sched_370")

\* scheduleNextEffect(delayMs), lines 369-376
scheduleNextEffect(S, t) ==
    CASE S.pc[t] = "sched_370" ->
            Goto([S EXCEPT !.currentStrobeRunnable = NewRunnable(S, "complete", 0, 0, FALSE)],
                 t, "sched_375")
      [] S.pc[t] = "sched_375" ->
            Return(postDelayed(S, S.currentStrobeRunnable, S.loc[t].remainingMs), t)

\* executePulseEffect(effect), lines 322-334
executePulseEffect(S, t) ==
    CASE S.pc[t] = "pulse_323" ->
            Goto(setFlash(S, t, TRUE), t, "pulse_328")
      [] S.pc[t] = "pulse_328" ->
            LET hp == getHalfPeriodMs(S.loc[t].effect)
                S1 == Loc(S, t, "halfPeriod", IF hp <= 0 THEN DefaultPulseMs ELSE hp)
            IN  Goto([S1 EXCEPT !.currentStrobeRunnable = NewRunnable(S, "pulse", 0, 0, FALSE)],
                     t, "pulse_333")
      [] S.pc[t] = "pulse_333" ->
            Return(postDelayed(S, S.currentStrobeRunnable, S.loc[t].halfPeriod), t)

\* line 341: Log.e(TAG, "Invalid frequency for strobe effect"), logcat only
InvalidFrequency == Ev("Log.e", 0, "Invalid frequency for strobe effect")

\* executeStrobeEffect(effect, remainingMs), lines 336-348
executeStrobeEffect(S, t) ==
    LET hp == getHalfPeriodMs(S.loc[t].effect)
        S1 == [S EXCEPT !.loc[t].halfPeriod = hp,
                        !.loc[t].endTime = S.now + S.loc[t].remainingMs,
                        !.loc[t].turnOn = TRUE]
    IN  IF hp <= 0
        THEN Goto(Record(S1, t, InvalidFrequency), t, "cce_379")
        ELSE Goto(S1, t, "loop_351a")

\* strobeLoop(halfPeriod, endTime, turnOn), lines 350-367
strobeLoop(S, t) ==
    CASE S.pc[t] = "loop_351a" ->
            IF S.isStopped THEN Return(S, t) ELSE Goto(S, t, "loop_351b")
      [] S.pc[t] = "loop_351b" ->
            IF S.isPaused THEN Return(S, t) ELSE Goto(S, t, "loop_353")
      [] S.pc[t] = "loop_353" ->
            IF S.now >= S.loc[t].endTime
            THEN Goto(Loc(S, t, "now", S.now), t, "loop_355")
            ELSE Goto(Loc(S, t, "now", S.now), t, "loop_360")
      [] S.pc[t] = "loop_355" ->
            Goto(setFlash(S, t, FALSE), t, "cce_379")
      [] S.pc[t] = "loop_360" ->
            Goto(setFlash(S, t, S.loc[t].turnOn), t, "loop_365")
      [] S.pc[t] = "loop_365" ->
            LET l == S.loc[t]
                S1 == Loc(S, t, "delay", Min(l.halfPeriod, l.endTime - l.now))
            IN  Goto([S1 EXCEPT !.currentStrobeRunnable =
                                   NewRunnable(S, "loop", l.halfPeriod, l.endTime, ~l.turnOn)],
                     t, "loop_366")
      [] S.pc[t] = "loop_366" ->
            Return(postDelayed(S, S.currentStrobeRunnable, S.loc[t].delay), t)

\* completeCurrentEffect(), lines 378-384
completeCurrentEffect(S, t) ==
    CASE S.pc[t] = "cce_379" ->
            IF S.currentEffect # NoEffect THEN Goto(S, t, "cce_380") ELSE Goto(S, t, "pne_275a")
      [] S.pc[t] = "cce_380" ->
            IF S.currentEffect = NoEffect THEN Throw(S, t)
            ELSE Goto(notifyEffectCompleted(S, t, S.currentEffect.id), t, "pne_275a")

\* the Runnable of scheduleNextEffect, lines 370-374
completeRunnable(S, t) ==
    CASE S.pc[t] = "cb_371a" ->
            IF S.isStopped THEN Return(S, t) ELSE Goto(S, t, "cb_371b")
      [] S.pc[t] = "cb_371b" ->
            IF S.isPaused THEN Return(S, t) ELSE Goto(S, t, "cce_379")

\* the Runnable of executePulseEffect, lines 328-331
pulseRunnable(S, t) == Goto(setFlash(S, t, FALSE), t, "cce_379")

(* ------------------------------------------------------- public methods *)
\* start(), lines 153-172
start(S, t) ==
    CASE S.pc[t] = "start_154" ->
            IF ~S.hasFlashlight
            THEN Return(notifyError(S, t, "Flashlight not available"), t)
            ELSE Goto(S, t, "start_159a")
      [] S.pc[t] = "start_159a" ->
            IF S.isRunning THEN Goto(S, t, "start_159b") ELSE Goto(S, t, "start_164")
      [] S.pc[t] = "start_159b" ->
            IF ~S.isPaused THEN Return(S, t) ELSE Goto(S, t, "start_164")
      [] S.pc[t] = "start_164" -> Goto([S EXCEPT !.isStopped = FALSE], t, "start_165")
      [] S.pc[t] = "start_165" -> Goto([S EXCEPT !.isPaused = FALSE], t, "start_166")
      [] S.pc[t] = "start_166" -> Goto([S EXCEPT !.isRunning = TRUE], t, "start_168")
      [] S.pc[t] = "start_168" -> Goto(setState(S, t, "RUNNING"), t, "pne_275a")

\* enqueue(effect), lines 111-119
enqueue(S, t) ==
    CASE S.pc[t] = "enqueue_112" ->
            Goto([S EXCEPT !.effectQueue = offer(@, S.loc[t].effect)], t, "enqueue_116a")
      [] S.pc[t] = "enqueue_116a" ->
            IF S.isRunning THEN Return(S, t) ELSE Goto(S, t, "enqueue_116b")
      [] S.pc[t] = "enqueue_116b" ->
            IF S.isPaused THEN Return(S, t) ELSE Goto(S, t, "start_154")

\* enqueueAll(effects), lines 124-133
enqueueAll(S, t) ==
    CASE S.pc[t] = "enqueueAll_126" ->
            LET rest == Tail(S.loc[t].effects)
                S1 == [S EXCEPT !.effectQueue = offer(@, Head(S.loc[t].effects)),
                                !.loc[t].effects = rest]
            IN  IF rest = <<>> THEN Goto(S1, t, "enqueueAll_130a") ELSE S1
      [] S.pc[t] = "enqueueAll_130a" ->
            IF S.isRunning THEN Return(S, t) ELSE Goto(S, t, "enqueueAll_130b")
      [] S.pc[t] = "enqueueAll_130b" ->
            IF S.isPaused THEN Return(S, t) ELSE Goto(S, t, "start_154")

\* a clear that cancels the timing callbacks as well
clearQueueAndCallbacks(S, t) == Return([S EXCEPT !.effectQueue = <<>>, !.pending = <<>>], t)

\* clearQueue(), lines 138-141
clearQueue(S, t) == Return([S EXCEPT !.effectQueue = <<>>], t)

\* pause(), lines 177-197
pause(S, t) ==
    CASE S.pc[t] = "pause_178a" ->
            IF ~S.isRunning THEN Return(S, t) ELSE Goto(S, t, "pause_178b")
      [] S.pc[t] = "pause_178b" ->
            IF S.isPaused THEN Return(S, t) ELSE Goto(S, t, "pause_180")
      [] S.pc[t] = "pause_180" -> Goto([S EXCEPT !.isPaused = TRUE], t, "pause_183")
      [] S.pc[t] = "pause_183" ->
            IF S.effectStartTime > 0 THEN Goto(S, t, "pause_184") ELSE Goto(S, t, "pause_188")
      [] S.pc[t] = "pause_184" ->
            Goto([S EXCEPT !.pausedElapsed = S.now - S.effectStartTime], t, "pause_188")
      [] S.pc[t] = "pause_188" -> Goto(setFlash(S, t, FALSE), t, "pause_191")
      [] S.pc[t] = "pause_191" ->
            IF S.currentStrobeRunnable # NoRunnable
            THEN Goto(S, t, "pause_192") ELSE Goto(S, t, "pause_195")
      [] S.pc[t] = "pause_192" ->
            Goto(Record(removeCallbacks(S, S.currentStrobeRunnable), t,
                        Ev("removeCallbacks", 0, "")), t, "pause_195")
      [] S.pc[t] = "pause_195" -> Return(setState(S, t, "PAUSED"), t)

\* a resume that grants the whole duration again
remainingFull(durationMs, elapsed) == durationMs

\* line 211: currentEffect.getDurationMs() - pausedElapsed.get()
remainingMs(durationMs, elapsed) == durationMs - elapsed

\* resume(), lines 202-220
resume(S, t) ==
    CASE S.pc[t] = "resume_203" ->
            IF ~S.isPaused THEN Return(S, t) ELSE Goto(S, t, "resume_205")
      [] S.pc[t] = "resume_205" -> Goto([S EXCEPT !.isPaused = FALSE], t, "resume_206")
      [] S.pc[t] = "resume_206" -> Goto(setState(S, t, "RUNNING"), t, "resume_210")
      [] S.pc[t] = "resume_210" ->
            IF S.currentEffect # NoEffect
            THEN Goto(S, t, "resume_211a") ELSE Goto(S, t, "pne_275a")
      [] S.pc[t] = "resume_211a" ->       \* currentEffect.getDurationMs()
            IF S.currentEffect = NoEffect THEN Throw(S, t)
            ELSE Goto(Loc(S, t, "remainingMs", S.currentEffect.durationMs), t, "resume_211b")
      [] S.pc[t] = "resume_211b" ->       \* ... - pausedElapsed.get()
            LET remaining == remainingMs(S.loc[t].remainingMs, S.pausedElapsed)
            IN  IF remaining > 0
                THEN Goto(Loc(S, t, "remainingMs", remaining), t, "resume_213")
                ELSE Goto(S, t, "pne_275a")
      [] S.pc[t] = "resume_213" ->
            Goto(Loc(S, t, "effect", S.currentEffect), t, "exec_294")

\* a stop() that leaves currentEffect as it is
stopKeepingEffect(S, t) ==
    CASE S.pc[t] = "stop_228" -> Goto([S EXCEPT !.isStopped = TRUE], t, "stop_229")
      [] S.pc[t] = "stop_229" -> Goto([S EXCEPT !.isPaused = FALSE], t, "stop_230")
      [] S.pc[t] = "stop_230" -> Goto([S EXCEPT !.isRunning = FALSE], t, "stop_234")
      [] S.pc[t] = "stop_234" ->
            Goto(Record(removeCallbacksAndMessages(S), t, Ev("removeCallbacks", 0, "")),
                 t, "stop_236")
      [] S.pc[t] = "stop_236" ->
            Goto([S EXCEPT !.currentStrobeRunnable = NoRunnable], t, "stop_239")
      [] S.pc[t] = "stop_239" -> Goto(setFlash(S, t, FALSE), t, "stop_242")
      [] S.pc[t] = "stop_242" -> Goto(S, t, "stop_243")
      [] S.pc[t] = "stop_243" -> Goto([S EXCEPT !.effectStartTime = 0], t, "stop_244")
      [] S.pc[t] = "stop_244" -> Goto([S EXCEPT !.pausedElapsed = 0], t, "stop_246")
      [] S.pc[t] = "stop_246" -> Return(setState(S, t, "STOPPED"), t)

\* stop(), lines 225-248
stop(S, t) ==
    CASE S.pc[t] = "stop_228" -> Goto([S EXCEPT !.isStopped = TRUE], t, "stop_229")
      [] S.pc[t] = "stop_229" -> Goto([S EXCEPT !.isPaused = FALSE], t, "stop_230")
      [] S.pc[t] = "stop_230" -> Goto([S EXCEPT !.isRunning = FALSE], t, "stop_234")
      [] S.pc[t] = "stop_234" ->
            Goto(Record(removeCallbacksAndMessages(S), t, Ev("removeCallbacks", 0, "")),
                 t, "stop_236")
      [] S.pc[t] = "stop_236" ->
            Goto([S EXCEPT !.currentStrobeRunnable = NoRunnable], t, "stop_239")
      [] S.pc[t] = "stop_239" -> Goto(setFlash(S, t, FALSE), t, "stop_242")
      [] S.pc[t] = "stop_242" -> Goto([S EXCEPT !.currentEffect = NoEffect], t, "stop_243")
      [] S.pc[t] = "stop_243" -> Goto([S EXCEPT !.effectStartTime = 0], t, "stop_244")
      [] S.pc[t] = "stop_244" -> Goto([S EXCEPT !.pausedElapsed = 0], t, "stop_246")
      [] S.pc[t] = "stop_246" -> Return(setState(S, t, "STOPPED"), t)

\* a retry loop that goes round once more
ForceOffAttemptsPlusOne == 3 + 1

\* forceOff(): for (int i = 0; i < 3; i++)
ForceOffAttempts == 3

\* a forceOff() that ends as stop() does, with setState(STOPPED)
forceOffAndStop(S, t) ==
    Return(setState(Record([removeCallbacksAndMessages(S) EXCEPT
                                !.isStopped = TRUE, !.isPaused = FALSE, !.isRunning = FALSE,
                                !.currentStrobeRunnable = NoRunnable,
                                !.torch = FALSE, !.isFlashOn = FALSE],
                           t, Ev("removeCallbacks", 0, "")),
                    t, "STOPPED"), t)

\* forceOff(), lines 404-430
forceOff(S, t) ==
    CASE S.pc[t] = "force_408" -> Goto([S EXCEPT !.isStopped = TRUE], t, "force_409")
      [] S.pc[t] = "force_409" -> Goto([S EXCEPT !.isPaused = FALSE], t, "force_410")
      [] S.pc[t] = "force_410" -> Goto([S EXCEPT !.isRunning = FALSE], t, "force_413")
      [] S.pc[t] = "force_413" ->
            Goto(Record(removeCallbacksAndMessages(S), t, Ev("removeCallbacks", 0, "")),
                 t, "force_415")
      [] S.pc[t] = "force_415" ->
            Goto([S EXCEPT !.currentStrobeRunnable = NoRunnable], t, "force_418")
      [] S.pc[t] = "force_418" ->         \* one iteration of the retry loop
            IF S.loc[t].i >= ForceOffAttempts THEN Return(S, t)
            ELSE IF ~S.hasFlashlight THEN Loc(S, t, "i", S.loc[t].i + 1)
            ELSE IF S.failBudget > 0
                 THEN Loc(Record([S EXCEPT !.failBudget = @ - 1], t, TorchCmd(FALSE, FALSE)),
                          t, "i", S.loc[t].i + 1)
                 ELSE Return(Record([S EXCEPT !.torch = FALSE, !.isFlashOn = FALSE],
                                    t, TorchCmd(FALSE, TRUE)), t)

(* ------------------------------------------------------------- execution *)
\* one statement of thread t
Step(S, t) ==
    LET l == S.pc[t]
    IN  CASE l \in {"start_154", "start_159a", "start_159b", "start_164", "start_165",
                    "start_166", "start_168"} -> start(S, t)
          [] l \in {"enqueue_112", "enqueue_116a", "enqueue_116b"} -> enqueue(S, t)
          [] l \in {"enqueueAll_126", "enqueueAll_130a", "enqueueAll_130b"} -> enqueueAll(S, t)
          [] l = "clearQueue_139" -> clearQueue(S, t)
          [] l \in {"pause_178a", "pause_178b", "pause_180", "pause_183", "pause_184",
                    "pause_188", "pause_191", "pause_192", "pause_195"} -> pause(S, t)
          [] l \in {"resume_203", "resume_205", "resume_206", "resume_210", "resume_211a",
                    "resume_211b", "resume_213"} -> resume(S, t)
          [] l \in {"stop_228", "stop_229", "stop_230", "stop_234", "stop_236", "stop_239",
                    "stop_242", "stop_243", "stop_244", "stop_246"} -> stop(S, t)
          [] l \in {"force_408", "force_409", "force_410", "force_413", "force_415",
                    "force_418"} -> forceOff(S, t)
          [] l \in {"pne_275a", "pne_275b", "pne_277a", "pne_277b", "pne_279", "pne_281",
                    "pne_282", "pne_288", "pne_290a", "pne_290b"} -> processNextEffect(S, t)
          [] l = "exec_294" -> executeEffect(S, t)
          [] l = "on_313" -> executeOnEffect(S, t)
          [] l = "off_318" -> executeOffEffect(S, t)
          [] l \in {"sched_370", "sched_375"} -> scheduleNextEffect(S, t)
          [] l \in {"pulse_323", "pulse_328", "pulse_333"} -> executePulseEffect(S, t)
          [] l = "strobe_337" -> executeStrobeEffect(S, t)
          [] l \in {"loop_351a", "loop_351b", "loop_353", "loop_355", "loop_360",
                    "loop_365", "loop_366"} -> strobeLoop(S, t)
          [] l \in {"cce_379", "cce_380"} -> completeCurrentEffect(S, t)
          [] l \in {"cb_371a", "cb_371b"} -> completeRunnable(S, t)
          [] l = "pulsecb_329" -> pulseRunnable(S, t)

RECURSIVE Run(_, _)
\* thread t runs until its method or callback returns
Run(S, t) == IF S.pc[t] \in {"idle", "crashed"} THEN S ELSE Run(Step(S, t), t)

\* thread t enters method m at label l with locals lv
Call(S, t, m, l, lv) ==
    [S EXCEPT !.pc[t] = l, !.loc[t] = [lv EXCEPT !.method = m],
              !.op = [thread |-> t, method |-> m], !.log = <<>>,
              !.calls = IF t = "caller" /\ "conc" \in S.probe THEN @ + 1 ELSE @,
              !.returned = IF t = "caller" THEN "none" ELSE @]

\* the message the looper of StrobeEngineThread delivers next: the earliest due,
\* the first posted among equals
NextMessage(S) ==
    CHOOSE k \in 1..Len(S.pending) :
        /\ \A j \in 1..Len(S.pending) : S.pending[k].due <= S.pending[j].due
        /\ \A j \in 1..(k - 1) : S.pending[j].due > S.pending[k].due

RemoveAt(q, k) == SubSeq(q, 1, k - 1) \o SubSeq(q, k + 1, Len(q))

\* the looper takes the message and enters its Runnable
Deliver(S) ==
    LET k == NextMessage(S)
        r == S.pending[k].r
        S1 == [S EXCEPT !.pending = RemoveAt(@, k)]
        lv == [NoLocals EXCEPT !.halfPeriod = r.halfPeriod, !.endTime = r.endTime,
                               !.turnOn = r.turnOn]
    IN  CASE r.kind = "complete" -> Call(S1, "timer", "completeRunnable", "cb_371a", lv)
          [] r.kind = "pulse"    -> Call(S1, "timer", "pulseRunnable", "pulsecb_329", lv)
          [] r.kind = "loop"     -> Call(S1, "timer", "strobeLoop", "loop_351a", lv)

Deliverable(S) ==
    /\ S.pc["timer"] = "idle"
    /\ S.pending # <<>>
    /\ S.pending[NextMessage(S)].due <= S.now

(* ------------------------------------------------------------------- Init *)
NoOp == [thread |-> "none", method |-> "none"]

\* the state after new StrobeEngine(context) and setListener (lines 49-69)
NewEngine(flash, probes) ==
    /\ hasFlashlight \in flash
    /\ effectQueue = <<>>
    /\ currentEffect = NoEffect
    /\ isFlashOn = FALSE
    /\ isPaused = FALSE
    /\ isStopped = TRUE
    /\ isRunning = FALSE
    /\ effectStartTime = 0
    /\ pausedElapsed = 0
    /\ state = "IDLE"
    /\ currentStrobeRunnable = NoRunnable
    /\ pending = <<>>
    /\ torch = FALSE
    /\ failBudget = 0
    /\ thrown = "CameraAccessException"
    /\ now = 1
    /\ pc = [t \in Threads |-> "idle"]
    /\ loc = [t \in Threads |-> NoLocals]
    /\ op = NoOp
    /\ log = <<>>
    /\ trace = <<>>
    /\ nextId = 1
    /\ ran = 0
    /\ pauses = 0
    /\ calls = 0
    /\ returned = "none"
    /\ probe = probes

\* no call is on its way through the plugin
Constructed(flash, probes) ==
    NewEngine(flash, probes) /\ wire = NoWire /\ service = NewService /\ app = NoApp

Init == Constructed(BOOLEAN, {})

(* --------------------------------------------- actions, run to completion *)
BothIdle == pc["caller"] = "idle" /\ pc["timer"] = "idle"

\* the caller thread executes method m, entered at label l, to its return;
\* n is the number of effects the plugin created for the call
Invoke(m, l, lv, n) ==
    /\ BothIdle
    /\ Unpack(Run(Call([Pack EXCEPT !.nextId = @ + n], "caller", m, l, lv), "caller"))

MakeEffect(i, shape) == StrobeEffect(i, shape[1], shape[2], shape[3])

EnqueueUpTo(n) ==
    /\ nextId <= n
    /\ \E shape \in EffectShapes :
          Invoke("enqueue", "enqueue_112",
                 [NoLocals EXCEPT !.effect = MakeEffect(nextId, shape)], 1)

EnqueueAllUpTo(n) ==
    /\ nextId + 1 <= n
    /\ \E s1 \in EffectShapes, s2 \in EffectShapes :
          Invoke("enqueueAll", "enqueueAll_126",
                 [NoLocals EXCEPT !.effects = <<MakeEffect(nextId, s1),
                                                MakeEffect(nextId + 1, s2)>>], 2)

Enqueue == EnqueueUpTo(MaxEffects)
EnqueueAll == EnqueueAllUpTo(MaxEffects)
ClearQueue == Invoke("clearQueue", "clearQueue_139", NoLocals, 0)
Start == Invoke("start", "start_154", NoLocals, 0)
Pause == Invoke("pause", "pause_178a", NoLocals, 0)
Resume == Invoke("resume", "resume_203", NoLocals, 0)
Stop == Invoke("stop", "stop_228", NoLocals, 0)
ForceOff == Invoke("forceOff", "force_408", NoLocals, 0)

\* the looper delivers the next due message and its Runnable runs to its return
Timer ==
    /\ BothIdle
    /\ Deliverable(Pack)
    /\ Unpack(Run(Deliver(Pack), "timer"))

\* the clock advances by d milliseconds; the current effect is credited with them
\* when the engine is RUNNING
Advance(d) ==
    /\ now' = now + d
    /\ ran' = IF "time" \in probe /\ state = "RUNNING" /\ currentEffect # NoEffect
              THEN ran + d ELSE ran
    /\ op' = NoOp
    /\ log' = <<>>
    /\ UNCHANGED <<hasFlashlight, effectQueue, currentEffect, isFlashOn, isPaused, isStopped,
                   isRunning, effectStartTime, pausedElapsed, state, currentStrobeRunnable,
                   pending, torch, failBudget, thrown, pc, loc, trace, nextId, pauses,
                   calls, returned, probe, wire, service, app>>

\* the passing of time shows only while a message waits in the looper or an effect
\* is suspended; otherwise every later behaviour is the same one shifted in time
TimeMatters == pending # <<>> \/ (isPaused /\ currentEffect # NoEffect)

\* one millisecond passes, up to the horizon h; with ideal timers no due message is
\* kept waiting
Elapse(h) ==
    /\ BothIdle
    /\ now < h
    /\ TimeMatters
    /\ ~Deliverable(Pack)
    /\ Advance(1)

Tick == Elapse(MaxTime)

Next ==
    \/ Enqueue \/ EnqueueAll \/ ClearQueue
    \/ Start \/ Pause \/ Resume \/ Stop \/ ForceOff
    \/ Timer \/ Tick

Spec == Init /\ [][Next]_vars

(* ------------------------------------------------- running to exhaustion *)
\* effects created over a run of SpecLive
MaxLiveEffects == 3

InitLive == Constructed({TRUE}, {})

LiveEnqueue == EnqueueUpTo(MaxLiveEffects)
LiveEnqueueAll == EnqueueAllUpTo(MaxLiveEffects)

\* a millisecond passes while a callback waits; the durations being finite,
\* time needs no horizon
LiveTick ==
    /\ BothIdle
    /\ TimeMatters
    /\ ~Deliverable(Pack)
    /\ Advance(1)

NextLive == LiveEnqueue \/ LiveEnqueueAll \/ Timer \/ LiveTick

\* a step of the looper: the steps of NextLive that Timer takes, told by their
\* guard and by the callback they record in op (two callbacks never follow each
\* other without a tick in between, so every Timer step changes op)
Delivery ==
    /\ BothIdle
    /\ Deliverable(Pack)
    /\ \E m \in {"completeRunnable", "pulseRunnable", "strobeLoop"} :
          op' = [thread |-> "timer", method |-> m]

\* time passes and the looper delivers every message that is due
SpecLive == InitLive /\ [][NextLive]_vars /\ WF_op(Delivery) /\ WF_vars(LiveTick)

(* --------------------------------------------- operations without forceOff *)
NextPair ==
    \/ Enqueue \/ EnqueueAll \/ ClearQueue
    \/ Start \/ Pause \/ Resume \/ Stop
    \/ Timer \/ Tick

SpecPair == Init /\ [][NextPair]_vars

(* ------------------------------------------ enqueue and run to completion *)
\* effects created over a run of SpecFifo
MaxFifoEffects == 3
\* its horizon in milliseconds
MaxFifoTime == 10

InitFifo == Constructed({TRUE}, {"trace"})

FifoEnqueue == EnqueueUpTo(MaxFifoEffects)
FifoEnqueueAll == EnqueueAllUpTo(MaxFifoEffects)
FifoTick == Elapse(MaxFifoTime)

NextFifo == FifoEnqueue \/ FifoEnqueueAll \/ Timer \/ FifoTick

SpecFifo == InitFifo /\ [][NextFifo]_vars

(* ------------------------------------------------------- effects as JSON *)
\* the engine's variables
engine == <<hasFlashlight, effectQueue, currentEffect, isFlashOn, isPaused, isStopped,
            isRunning, effectStartTime, pausedElapsed, state, currentStrobeRunnable,
            pending, torch, failBudget, thrown, now, pc, loc, op, log, trace, nextId, ran,
            pauses, calls, returned, probe>>

\* ids generateId() may produce
GeneratedIds == {"effect_1_17", "effect_1_4242"}

Absent == {Null}

\* the JSON objects a caller of the plugin sends
Sendable ==
    {put(put(put(put(put(EmptyJson, "id", i), "type", ty), "durationMs", d),
             "frequency", f), "intensity", a) :
        i \in Absent \cup {JString("flash-1")},
        ty \in Absent \cup {JString(str) : str \in TypeStrings},
        d \in Absent \cup {JLong(0), JLong(250), JDouble(15)},
        f \in Absent \cup {JLong(0), JDouble(125), JLong(600)},
        a \in Absent \cup {JDouble(5)}}

InitJson ==
    /\ NewEngine({TRUE}, {})
    /\ service = NewService
    /\ app = NoApp
    /\ wire \in {[NoWire EXCEPT !.stage = "sent", !.json = j] : j \in Sendable}

\* FlashlightPlugin builds the effect of a call: StrobeEffect.fromJson
Parse ==
    /\ wire.stage \in {"sent", "serialized"}
    /\ \E g \in GeneratedIds :
          wire' = [wire EXCEPT !.effect = fromJson(wire.json, g),
                               !.stage = IF wire.stage = "sent" THEN "parsed" ELSE "reparsed"]
    /\ UNCHANGED <<engine, service, app>>

\* the effect is written back with toJson
Serialize ==
    /\ wire.stage = "parsed"
    /\ wire.effect # NoObject
    /\ wire' = [wire EXCEPT !.json = toJson(wire.effect), !.sent = wire.effect,
                            !.stage = "serialized"]
    /\ UNCHANGED <<engine, service, app>>

NextJson == Parse \/ Serialize

SpecJson == InitJson /\ [][NextJson]_vars

(* ------------------------------------------------ effects on their way in *)
\* JavaScript's a || b: b when a is undefined, 0 or the empty string
orElse(a, b) ==
    IF a = Null \/ (a.t \in {"long", "double"} /\ a.n = 0) \/ (a.t = "string" /\ a.s = "")
    THEN b ELSE a

\* the field k of JavaScript object o, undefined when it has none
field(o, k) == IF has(o, k) THEN o[k] ELSE Null

\* PluginCall.getString(name, fallback)
getString(data, k, fallback) ==
    IF has(data, k) /\ data[k].t = "string" THEN data[k] ELSE fallback

\* PluginCall.getInt(name, fallback): the value when it is an Integer
getInt(data, k, fallback) ==
    IF has(data, k) /\ data[k].t = "long" THEN data[k] ELSE fallback

\* PluginCall.getDouble(name, fallback): the value when it is a number
getDouble(data, k, fallback) ==
    IF has(data, k) /\ data[k].t \in {"long", "double"}
    THEN JDouble(data[k].n) ELSE fallback

\* the effect objects a caller of flashlightService.enqueue passes
Given ==
    {put(put(put(put(put(EmptyJson, "id", i), "type", ty), "durationMs", d),
             "frequency", f), "intensity", a) :
        i \in Absent \cup {JString("flash-1")},
        ty \in Absent \cup {JString("ON"), JString("PULSE")},
        d \in Absent \cup {JLong(0), JLong(250)},
        f \in Absent \cup {JLong(0), JDouble(125)},
        a \in Absent \cup {JLong(0), JDouble(5)}}

\* an initialized service on a device with a flashlight is handed an effect
InitProduce ==
    /\ NewEngine({TRUE}, {})
    /\ service = [NewService EXCEPT !.isAvailable = TRUE, !.initialized = TRUE]
    /\ app = NoApp
    /\ wire \in {[stage |-> "given", given |-> o, json |-> EmptyJson, effect |-> NoObject] :
                    o \in Given}

\* flashlightService.enqueue(effect) builds the options of plugin.enqueue
ServiceOptions ==
    /\ wire.stage = "given"
    /\ service.isAvailable
    /\ LET o == wire.given
           j1 == put(EmptyJson, "type", orElse(field(o, "type"), JString("STROBE")))
           j2 == put(j1, "durationMs", orElse(field(o, "durationMs"), JLong(1000)))
           j3 == put(j2, "frequency", orElse(field(o, "frequency"), JLong(10)))
           j4 == put(j3, "intensity", orElse(field(o, "intensity"), JDouble(10)))
       IN  wire' = [wire EXCEPT !.json = put(j4, "id", field(o, "id")), !.stage = "called"]
    /\ UNCHANGED <<engine, service, app>>

\* FlashlightPlugin.enqueue(call) builds effectJson from the call
PluginJson ==
    /\ wire.stage = "called"
    /\ LET data == wire.json
           j1 == put(EmptyJson, "type", getString(data, "type", JString("STROBE")))
           j2 == put(j1, "durationMs", getInt(data, "durationMs", JLong(1000)))
           j3 == put(j2, "frequency", getDouble(data, "frequency", JDouble(100)))
           j4 == put(j3, "intensity", getDouble(data, "intensity", JDouble(10)))
       IN  wire' = [wire EXCEPT !.json = put(j4, "id", getString(data, "id", Null)),
                                !.stage = "built"]
    /\ UNCHANGED <<engine, service, app>>

\* FlashlightPlugin.enqueue(call) makes the effect of effectJson
PluginEffect ==
    /\ wire.stage = "built"
    /\ \E g \in GeneratedIds :
          wire' = [wire EXCEPT !.effect = fromJson(wire.json, g), !.stage = "produced"]
    /\ UNCHANGED <<engine, service, app>>

NextProduce == ServiceOptions \/ PluginJson \/ PluginEffect

SpecProduce == InitProduce /\ [][NextProduce]_vars

(* ------------------------------------------------------------ App screens *)
\* entries of the browser history kept below the current one
MaxHistory == 2

\* the two App components of the repository: src/src/App.jsx routes with
\* react-router ("router"), part_012 switches on a screen state ("screens")
Variants == {"router", "screens"}
Paths == {"/", "/warning", "/packs", "/preview", "/session", "/settings", "/other"}
Packs == {"pack-1", "pack-2"}

\* a guard that lets everything through
RequireNothing(a, children) == children

\* RequireWarning, App.jsx lines 16-26
RequireWarning(a, children) == IF a.accepted THEN children ELSE "null"

\* RequirePack, App.jsx lines 32-40
RequirePack(a, children) == IF a.pack # "none" THEN children ELSE "Navigate"

\* what the page shows: <Routes> of App.jsx lines 54-92, the switch of part_012
\* lines 63-86
Shown(a) ==
    IF a.variant = "router"
    THEN CASE a.at = "/" -> "SplashScreen"
           [] a.at = "/warning" -> "SeizureWarning"
           [] a.at = "/packs" -> RequireWarning(a, "PackSelection")
           [] a.at = "/preview" -> RequireWarning(a, RequirePack(a, "PackPreview"))
           [] a.at = "/session" -> RequireWarning(a, RequirePack(a, "SessionPlayer"))
           [] a.at = "/settings" -> RequireWarning(a, "Settings")
           [] OTHER -> "Navigate"
    ELSE CASE a.at = "splash" -> "SplashScreen"
           [] a.at = "warning" -> "SeizureWarning"
           [] a.at = "packs" -> "PackSelection"
           [] a.at = "preview" -> IF a.pack # "none" THEN "PackPreview" ELSE "null"
           [] a.at = "session" -> IF a.pack # "none" THEN "SessionPlayer" ELSE "null"
           [] OTHER -> "SplashScreen"

\* navigate(to, {replace}) of react-router, setScreen(to) of part_012
navigate(a, to, replace) ==
    IF a.variant = "screens" \/ replace THEN [a EXCEPT !.at = to]
    ELSE LET h == Append(a.hist, a.at)
         IN  [a EXCEPT !.at = to,
                       !.hist = IF Len(h) > MaxHistory THEN Tail(h) ELSE h]

\* the handler the shown component calls on event e; the screen names of part_012
\* are the router's paths without the slash
handle(a, e) ==
    LET r == a.variant = "router"
        to(p, q) == IF r THEN p ELSE q
    IN  CASE e = "splashComplete" ->
               IF r THEN navigate(a, IF a.accepted THEN "/packs" ELSE "/warning", TRUE)
               ELSE navigate(a, "warning", TRUE)
          [] e = "acceptWarning" ->
               IF r THEN navigate(a, "/packs", TRUE)
               ELSE navigate([a EXCEPT !.accepted = TRUE], "packs", TRUE)
          [] e = "openSettings" -> navigate(a, "/settings", FALSE)
          [] e = "settingsBack" -> navigate(a, "/packs", FALSE)
          [] e = "acceptPreview" -> navigate(a, to("/session", "session"), FALSE)
          [] e = "backFromPreview" ->
               navigate([a EXCEPT !.pack = "none"], to("/packs", "packs"), FALSE)
          [] OTHER ->      \* exitSession, sessionComplete
               navigate([a EXCEPT !.pack = "none"], to("/packs", "packs"), TRUE)

\* the events each component offers
Offers(a) ==
    LET c == Shown(a)
    IN  CASE c = "SplashScreen" -> {"splashComplete"}
          [] c = "SeizureWarning" -> {"acceptWarning"}
          [] c = "PackSelection" -> IF a.variant = "router" THEN {"openSettings"} ELSE {}
          [] c = "Settings" -> {"settingsBack"}
          [] c = "PackPreview" -> {"acceptPreview", "backFromPreview"}
          [] c = "SessionPlayer" -> {"exitSession", "sessionComplete"}
          [] OTHER -> {}

Web(a) == app' = a /\ UNCHANGED <<engine, wire, service>>

InitApp ==
    /\ NewEngine({TRUE}, {})
    /\ wire = NoWire
    /\ service = NewService
    /\ \E v \in Variants, acc \in BOOLEAN :
          app = [NoApp EXCEPT !.variant = v, !.accepted = acc,
                              !.at = IF v = "router" THEN "/" ELSE "splash"]

\* the user acts on the component that is shown
UserEvent == \E e \in Offers(app) : Web(handle(app, e))

\* handleSelectPack: selectPack(pack), then the preview
SelectPack ==
    /\ Shown(app) = "PackSelection"
    /\ \E pk \in Packs :
          Web(navigate([app EXCEPT !.pack = pk],
                       IF app.variant = "router" THEN "/preview" ELSE "preview", FALSE))

\* the effects and <Navigate> elements that run after a render
Redirect ==
    IF app.variant = "router"
    THEN \/ /\ app.at \in {"/packs", "/preview", "/session", "/settings"}
            /\ ~app.accepted
            /\ Web(navigate(app, "/warning", TRUE))
         \/ /\ app.at = "/warning" /\ app.accepted
            /\ Web(navigate(app, "/packs", TRUE))
         \/ /\ Shown(app) = "Navigate"
            /\ Web(navigate(app, IF app.at = "/other" THEN "/" ELSE "/packs", TRUE))
    ELSE \/ /\ app.at = "warning" /\ app.accepted
            /\ Web(navigate(app, "packs", TRUE))
         \/ /\ app.at = "session" /\ app.pack = "none"
            /\ Web(navigate(app, "packs", TRUE))

\* the user opens a URL of the HashRouter by hand
Visit ==
    /\ app.variant = "router"
    /\ \E p \in Paths : Web(navigate(app, p, FALSE))

\* the browser's back button
Back ==
    /\ app.variant = "router"
    /\ app.hist # <<>>
    /\ Web([app EXCEPT !.at = app.hist[Len(app.hist)],
                       !.hist = SubSeq(app.hist, 1, Len(app.hist) - 1)])

\* the page is loaded again: React state is lost, sessionStorage and the URL stay
Reload ==
    /\ app.variant \in Variants
    /\ Web([app EXCEPT !.pack = "none",
                    !.at = IF app.variant = "router" THEN @ ELSE "splash"])

NextApp == UserEvent \/ SelectPack \/ Redirect \/ Visit \/ Back \/ Reload

SpecApp == InitApp /\ [][NextApp]_vars

(* ---------------------------------------------------- phases of a pack *)
\* src/src/packs.js; a phase is reduced to its duration, in seconds

MaxPhases == 3
MaxDuration == 3
MaxElapsed == 10

\* the quotient a / b of two numbers, kept exact
Ratio(a, b) == [num |-> a, den |-> b]

NoPhaseInfo == [phaseIndex |-> -1]

getPackDuration(pack) ==
    LET RECURSIVE reduce(_, _)
        reduce(i, total) ==
            IF i < Len(pack.phases)
            THEN reduce(i + 1, total + pack.phases[i + 1].duration)
            ELSE total
    IN  reduce(0, 0)

\* a phase lookup in which a phase also owns the instant it ends
getCurrentPhaseInclusive(pack, elapsedTime) ==
    LET RECURSIVE loop(_, _)
        loop(i, accumulated) ==
            IF i < Len(pack.phases)
            THEN LET phase == pack.phases[i + 1]
                     phaseEnd == accumulated + phase.duration
                     phaseElapsed == elapsedTime - accumulated
                 IN  IF elapsedTime <= phaseEnd
                     THEN [phase |-> phase, phaseIndex |-> i,
                           phaseElapsed |-> phaseElapsed,
                           phaseProgress |-> Ratio(phaseElapsed, phase.duration),
                           totalPhases |-> Len(pack.phases)]
                     ELSE loop(i + 1, phaseEnd)
            ELSE LET lastPhase == pack.phases[Len(pack.phases)]
                 IN  [phase |-> lastPhase, phaseIndex |-> Len(pack.phases) - 1,
                      phaseElapsed |-> lastPhase.duration,
                      phaseProgress |-> Ratio(1, 1),
                      totalPhases |-> Len(pack.phases)]
    IN  loop(0, 0)

getCurrentPhase(pack, elapsedTime) ==
    LET RECURSIVE loop(_, _)
        loop(i, accumulated) ==
            IF i < Len(pack.phases)
            THEN LET phase == pack.phases[i + 1]
                     phaseEnd == accumulated + phase.duration
                     phaseElapsed == elapsedTime - accumulated
                 IN  IF elapsedTime < phaseEnd
                     THEN [phase |-> phase, phaseIndex |-> i,
                           phaseElapsed |-> phaseElapsed,
                           phaseProgress |-> Ratio(phaseElapsed, phase.duration),
                           totalPhases |-> Len(pack.phases)]
                     ELSE loop(i + 1, phaseEnd)
            ELSE LET lastPhase == pack.phases[Len(pack.phases)]
                 IN  [phase |-> lastPhase, phaseIndex |-> Len(pack.phases) - 1,
                      phaseElapsed |-> lastPhase.duration,
                      phaseProgress |-> Ratio(1, 1),
                      totalPhases |-> Len(pack.phases)]
    IN  loop(0, 0)

\* packs of one to MaxPhases phases, each lasting 1 .. MaxDuration
PhasePacks ==
    { [phases |-> p] :
        p \in UNION { [1..n -> [duration : 1..MaxDuration]] : n \in 1..MaxPhases } }

\* a player mounted on a pack at some elapsed time, nothing computed yet
InitPhase ==
    /\ NewEngine({TRUE}, {})
    /\ wire = NoWire
    /\ service = NewService
    /\ \E pack \in PhasePacks, t \in 0..MaxElapsed :
          app = [variant |-> "player", pack |-> pack, elapsed |-> t,
                 state |-> "playing", phaseInfo |-> NoPhaseInfo]

\* a render computes the phase of the elapsed time it is given
Render ==
    /\ app.variant = "player"
    /\ app.phaseInfo = NoPhaseInfo
    /\ Web([app EXCEPT !.phaseInfo = getCurrentPhase(app.pack, app.elapsed)])

\* an animation frame: the session ends at the pack's duration, and the
\* phase is computed for any earlier time
Animate ==
    /\ app.variant = "player"
    /\ app.state = "playing"
    /\ \E currentElapsed \in (app.elapsed + 1)..MaxElapsed :
          IF currentElapsed >= getPackDuration(app.pack)
          THEN Web([app EXCEPT !.state = "ending"])
          ELSE Web([app EXCEPT !.elapsed = currentElapsed,
                               !.phaseInfo = getCurrentPhase(app.pack, currentElapsed)])

NextPhase == Render \/ Animate

SpecPhase == InitPhase /\ [][NextPhase]_vars

(* ----------------------------------------------------- FlashlightService *)
\* effects created over a run of SpecService
MaxServiceEffects == 2

\* how the bridge settles a call of a plugin method: the native method runs and the
\* call resolves, or the call is rejected and the native method has not run
Settlements == {"resolve", "reject"}
PluginMethods == {"stop", "clearQueue", "forceOff", "switchOff"}

\* a service call in progress: the service object, the engine, whether it threw
InCall(sv, S) == [sv |-> sv, S |-> S, threw |-> FALSE]

\* this.plugin.<m>() with settlement b[m]; native is the engine after the method
invoke(M, b, m, native) ==
    LET M1 == [M EXCEPT !.sv.invoked = Append(@, m)]
    IN  IF b[m] = "resolve" THEN [M1 EXCEPT !.S = native] ELSE [M1 EXCEPT !.threw = TRUE]

native(S, m, l) == Run(Call(S, "caller", m, l, NoLocals), "caller")

\* StrobeEngine.flashOff(), lines 260-262
flashOff(S) ==
    setFlash([S EXCEPT !.log = <<>>, !.op = [thread |-> "caller", method |-> "flashOff"]],
             "caller", FALSE)

\* turnOff(), part_013 lines 170-181: never throws
turnOff(M, b) ==
    IF ~M.sv.isAvailable THEN M
    ELSE LET R == invoke(M, b, "switchOff", flashOff(M.S))
         IN  IF R.threw THEN [R EXCEPT !.threw = FALSE] ELSE [R EXCEPT !.sv.isOn = FALSE]

\* stop(), part_013 lines 347-361: rethrows after turnOff()
serviceStop(M, b) ==
    IF ~M.sv.isAvailable THEN M
    ELSE LET R == invoke(M, b, "stop", native(M.S, "stop", "stop_228"))
         IN  IF R.threw
             THEN [turnOff([R EXCEPT !.threw = FALSE], b) EXCEPT !.threw = TRUE]
             ELSE [R EXCEPT !.sv.isOn = FALSE]

\* clearQueue(), part_013 lines 367-376: rethrows
serviceClearQueue(M, b) ==
    IF ~M.sv.isAvailable THEN M
    ELSE invoke(M, b, "clearQueue", native(M.S, "clearQueue", "clearQueue_139"))

\* forceOff(), part_013 lines 188-198: falls back to turnOff()
serviceForceOff(M, b) ==
    LET R == invoke(M, b, "forceOff", native(M.S, "forceOff", "force_408"))
    IN  IF R.threw THEN turnOff([R EXCEPT !.threw = FALSE], b)
        ELSE [R EXCEPT !.sv.isOn = FALSE]

InitService ==
    /\ NewEngine(BOOLEAN, {})
    /\ wire = NoWire
    /\ service = NewService
    /\ app = NoApp

\* initialize(), part_013 lines 52-71: isAvailable() resolves with the engine's answer
\* or is rejected
Initialize ==
    /\ BothIdle
    /\ ~service.initialized
    /\ \E s \in Settlements :
          service' = [service EXCEPT !.initialized = TRUE,
                                     !.isAvailable = (s = "resolve" /\ hasFlashlight),
                                     !.invoked = <<"isAvailable">>,
                                     !.outcome = "resolved"]
    /\ UNCHANGED <<engine, wire, app>>

\* enqueue(effect), part_013 lines 238-255, on an available service
ServiceEnqueue == service.isAvailable /\ EnqueueUpTo(MaxServiceEffects)

\* turnOn(), part_013 lines 153-164, with switchOn resolved: StrobeEngine.flashOn()
TurnOn ==
    /\ BothIdle
    /\ service.isAvailable
    /\ UnpackEngine(setFlash([Pack EXCEPT !.log = <<>>,
                                          !.op = [thread |-> "caller", method |-> "flashOn"]],
                              "caller", TRUE))
    /\ service' = [service EXCEPT !.isOn = TRUE, !.invoked = <<"switchOn">>,
                                  !.outcome = "resolved"]
    /\ UNCHANGED <<wire, app>>

\* cleanup(), part_013 lines 412-437: stop() and clearQueue() in one try block,
\* then forceOff() with turnOff() as its catch, then isOn = false
Cleanup ==
    /\ BothIdle
    /\ \E b \in [PluginMethods -> Settlements] :
       \E M1 \in {serviceStop(InCall([service EXCEPT !.invoked = <<>>], Pack), b)} :
       \E M2 \in {IF M1.threw THEN M1 ELSE serviceClearQueue(M1, b)} :
       \E M3 \in {serviceForceOff([M2 EXCEPT !.threw = FALSE], b)} :
       \E M4 \in {IF M3.threw THEN turnOff([M3 EXCEPT !.threw = FALSE], b) ELSE M3} :
          /\ UnpackEngine(M4.S)
          /\ service' = [M4.sv EXCEPT !.isOn = FALSE,
                                      !.outcome = IF M4.threw THEN "rejected" ELSE "resolved"]
    /\ UNCHANGED <<wire, app>>

NextService ==
    \/ Initialize \/ ServiceEnqueue \/ TurnOn \/ Cleanup
    \/ Timer \/ Tick

SpecService == InitService /\ [][NextService]_vars

(* ----------------------------------------------------- strobe frequencies *)
\* effects created over a run of SpecFreq
MaxFreqEffects == 2
\* its horizon in milliseconds
MaxFreqTime == 5

\* an ON and strobes of 2 ms at no frequency, at 250 Hz, at 500 Hz and above
FreqShapes ==
    { <<"ON", 1, 0>>, <<"STROBE", 2, 0>>, <<"STROBE", 2, 250>>, <<"STROBE", 2, 500>>,
      <<"STROBE", 2, 600>> }

InitFreq == Constructed({TRUE}, {})

FreqEnqueue ==
    /\ nextId <= MaxFreqEffects
    /\ \E shape \in FreqShapes :
          Invoke("enqueue", "enqueue_112",
                 [NoLocals EXCEPT !.effect = MakeEffect(nextId, shape)], 1)

FreqTick == Elapse(MaxFreqTime)

NextFreq == FreqEnqueue \/ Timer \/ FreqTick

SpecFreq == InitFreq /\ [][NextFreq]_vars

(* ------------------------------------------------------ failing hardware *)
\* effects created over a run of SpecFault
MaxFaultEffects == 2
\* the clock's horizon in SpecFault
MaxFaultTime == 4

InitFault == Constructed(BOOLEAN, {})

\* what setTorchMode throws: the checked CameraAccessException (camera in use or
\* disconnected) or an unchecked exception (IllegalArgumentException and the like)
Throwables == {"CameraAccessException", "RuntimeException"}

\* the camera service starts to reject torch commands: the next n calls of
\* setTorchMode throw
HardwareFault ==
    /\ BothIdle
    /\ hasFlashlight
    /\ failBudget = 0
    /\ \E n \in 1..MaxFail : failBudget' = n
    /\ thrown' \in Throwables
    /\ op' = NoOp
    /\ log' = <<>>
    /\ UNCHANGED <<hasFlashlight, effectQueue, currentEffect, isFlashOn, isPaused, isStopped,
                   isRunning, effectStartTime, pausedElapsed, state, currentStrobeRunnable,
                   pending, torch, now, pc, loc, trace, nextId, ran, pauses, calls, returned,
                   probe, wire, service, app>>

FaultEnqueue == EnqueueUpTo(MaxFaultEffects)
FaultTick == Elapse(MaxFaultTime)

NextFault ==
    \/ FaultEnqueue
    \/ Pause \/ Resume \/ Stop \/ ForceOff
    \/ Timer \/ FaultTick \/ HardwareFault

SpecFault == InitFault /\ [][NextFault]_vars

(* ------------------------------------------------- pausing and resuming *)
\* effects created over a run of SpecPause
MaxPauseEffects == 1

InitPause == Constructed({TRUE}, {"time"})

PauseEnqueue == EnqueueUpTo(MaxPauseEffects)

NextPause == PauseEnqueue \/ Pause \/ Resume \/ Timer \/ Tick

SpecPause == InitPause /\ [][NextPause]_vars

(* ------------------------------------- the two threads, statement by statement *)
\* effects created over a run of the concurrent specification
MaxConcEffects == 3
\* its horizon in milliseconds
MaxConcTime == 3
\* calls the caller thread makes over a run of the concurrent specification
MaxCalls == 3

\* 500 Hz has period 2 ms and half-period 1 ms
ConcShapes == { <<"ON", 1, 0>>, <<"STROBE", 3, 500>> }

InitConc == Constructed({TRUE}, {"conc"})

\* the caller thread enters method m
Enter(m, l, lv, n) ==
    /\ pc["caller"] = "idle"
    /\ calls < MaxCalls
    /\ Unpack(Call([Pack EXCEPT !.nextId = @ + n], "caller", m, l, lv))

EnterEnqueue ==
    /\ nextId <= MaxConcEffects
    /\ \E shape \in ConcShapes :
          Enter("enqueue", "enqueue_112",
                [NoLocals EXCEPT !.effect = MakeEffect(nextId, shape)], 1)

EnterEnqueueAll ==
    /\ nextId + 1 <= MaxConcEffects
    /\ \E s1 \in ConcShapes, s2 \in ConcShapes :
          Enter("enqueueAll", "enqueueAll_126",
                [NoLocals EXCEPT !.effects = <<MakeEffect(nextId, s1),
                                               MakeEffect(nextId + 1, s2)>>], 2)

EnterClearQueue == Enter("clearQueue", "clearQueue_139", NoLocals, 0)
EnterStart == Enter("start", "start_154", NoLocals, 0)
EnterPause == Enter("pause", "pause_178a", NoLocals, 0)
EnterResume == Enter("resume", "resume_203", NoLocals, 0)
EnterStop == Enter("stop", "stop_228", NoLocals, 0)
EnterForceOff == Enter("forceOff", "force_408", NoLocals, 0)

\* thread t executes its next statement; log holds what that statement did
Statement(t) ==
    /\ pc[t] \notin {"idle", "crashed"}
    /\ Unpack(Step([Pack EXCEPT !.log = <<>>,
                                !.op = [thread |-> t, method |-> loc[t].method]], t))

CallerStatement == Statement("caller")
TimerStatement == Statement("timer")

\* the looper of StrobeEngineThread takes the next due message
Looper ==
    /\ Deliverable(Pack)
    /\ Unpack(Deliver(Pack))

\* a millisecond passes, also in the middle of a method; the looper does not sleep
\* on a due message
ConcTick ==
    /\ now < MaxConcTime
    /\ TimeMatters \/ pc["caller"] # "idle" \/ pc["timer"] # "idle"
    /\ ~Deliverable(Pack)
    /\ Advance(1)

NextConc ==
    \/ EnterEnqueue \/ EnterEnqueueAll \/ EnterClearQueue
    \/ EnterStart \/ EnterPause \/ EnterResume \/ EnterStop \/ EnterForceOff
    \/ CallerStatement \/ TimerStatement \/ Looper \/ ConcTick

SpecConc == InitConc /\ [][NextConc]_vars

\* the caller thread only enqueues
NextStrand == EnterEnqueue \/ CallerStatement \/ TimerStatement \/ Looper \/ ConcTick

SpecStrand == InitConc /\ [][NextStrand]_vars

(* ================================================================= claims *)
Quiet == BothIdle

\* C1: whenever getState() returns IDLE, PAUSED or STOPPED, the last value the
\* (always accepting) actuator was commanded is false.
C1_ActuatorOff == (Quiet /\ state \in {"IDLE", "PAUSED", "STOPPED"}) => torch = FALSE

\* the caller's latest call was pause(), stop() or forceOff() and it has returned
Quiesced == returned \in {"pause", "stop", "forceOff"}

TimerCommandsOn ==
    /\ op.thread = "timer"
    /\ \E k \in 1..Len(log) : log[k].ev = "setTorchMode" /\ log[k].st = "on"

\* C2: once pause(), stop() or forceOff() has returned, no timer callback commands
\* the actuator on (until the caller's next call), under every interleaving.
C2_NoOnAfterReturn == [][(Quiesced /\ Quiesced') => ~TimerCommandsOn']_vars

\* the event the listener receives k-th when effects run in insertion order, each
\* started once and completed once before the next starts
FifoEvent(k) ==
    IF k % 2 = 1 THEN Ev("effectStarted", (k + 1) \div 2, "")
    ELSE Ev("effectCompleted", k \div 2, "")

RanToCompletion ==
    /\ Quiet /\ state = "IDLE" /\ effectQueue = <<>> /\ pending = <<>>

\* C3: after enqueue/enqueueAll calls only, effectStarted and effectCompleted fire
\* for the effects in insertion order (ids are given in insertion order), nothing
\* reordered, skipped or duplicated; the effects not yet started wait in order.
C3_Fifo ==
    /\ \A k \in 1..Len(trace) : trace[k] = FifoEvent(k)
    /\ \A k \in 1..Len(effectQueue) : effectQueue[k].id = (Len(trace) + 1) \div 2 + k
    /\ (Len(trace) + 1) \div 2 + Len(effectQueue) = nextId - 1
    /\ RanToCompletion => Len(trace) = 2 * (nextId - 1)

\* three effects were enqueued and all of them ran to completion
C3_Witness ==
    /\ RanToCompletion
    /\ nextId = 4
    /\ Len(trace) = 6
    /\ now > 3

Emitted(l, e) == \E k \in 1..Len(l) : l[k] = e

\* an ON or OFF effect that was paused once and resumed is running
OncePaused ==
    /\ Quiet /\ state = "RUNNING"
    /\ currentEffect.type \in {"ON", "OFF"}
    /\ pauses = 1

\* C4: an ON or OFF effect of duration D paused once at elapsed e < D and resumed
\* completes D - e after resume(), however long the pause was: after the resume its
\* one completion callback is due when the time spent RUNNING reaches D, and
\* effectCompleted fires when it has reached D.
C4_ElapsedConserved ==
    /\ [](OncePaused =>
            /\ Len(pending) = 1
            /\ pending[1].r.kind = "complete"
            /\ pending[1].due - now = currentEffect.durationMs - ran)
    /\ [][(OncePaused /\ Timer /\ Emitted(log', Ev("effectCompleted", currentEffect.id, "")))
            => ran = currentEffect.durationMs]_vars

\* an ON effect paused after 1 ms for 2 ms or more has run its full duration and
\* its completion callback is due
C4_Witness ==
    /\ OncePaused
    /\ currentEffect.type = "ON"
    /\ pausedElapsed = 1
    /\ ran = currentEffect.durationMs
    /\ pending[1].due = now
    /\ now >= 1 + currentEffect.durationMs + 2

FirstTorchCmd(l) ==
    LET ks == {k \in 1..Len(l) : l[k].ev = "setTorchMode"}
    IN  l[CHOOSE k \in ks : \A j \in ks : k <= j].st

\* resume() re-enters a STROBE of half-period h > 0 that ran for e = ran milliseconds
ResumesStrobe ==
    /\ Resume
    /\ isPaused /\ state = "PAUSED"
    /\ currentEffect.type = "STROBE"
    /\ getHalfPeriodMs(currentEffect) > 0
    /\ currentEffect.durationMs - pausedElapsed > 0

\* C5: the first actuator value commanded after resume() of a STROBE is the phase an
\* un-paused run shows at elapsed e: on when floor(e/h) is even, off when it is odd.
C5_PhaseContinuity ==
    [][ResumesStrobe =>
          FirstTorchCmd(log') =
             (IF (ran \div getHalfPeriodMs(currentEffect)) % 2 = 0 THEN "on" ELSE "off")]_vars

\* what a no-op leaves alone: state, queue, current effect, timers, actuator
Untouched ==
    UNCHANGED <<state, effectQueue, currentEffect, pending, currentStrobeRunnable, torch,
                isFlashOn, isPaused, isStopped, isRunning, effectStartTime, pausedElapsed>>

\* C6: pause() while IDLE, PAUSED or STOPPED, resume() while not PAUSED and start()
\* while RUNNING change nothing and emit no event.
C6_NoOps ==
    [][(\/ Pause /\ state \in {"IDLE", "PAUSED", "STOPPED"}
        \/ Resume /\ state # "PAUSED"
        \/ Start /\ state = "RUNNING")
       => (Untouched /\ log' = <<>>)]_vars

Count(l, name) == Cardinality({k \in 1..Len(l) : l[k].ev = name})

\* C7 as stated: start() on an available engine whose queue is empty ends in IDLE
\* with one queueEmpty and no effectStarted.
C7_EmptyQueueStart ==
    [][(Start /\ hasFlashlight /\ effectQueue = <<>>)
       => (state' = "IDLE" /\ Count(log', "queueEmpty") = 1
           /\ Count(log', "effectStarted") = 0)]_vars

\* C7 amended: the same, unless the engine is already running (isRunning and not
\* isPaused), where start() does nothing at all.
C7_EmptyQueueStartIdle ==
    [][(Start /\ hasFlashlight /\ effectQueue = <<>>)
       => IF isRunning /\ ~isPaused
          THEN Untouched /\ log' = <<>>
          ELSE /\ state' = "IDLE"
               /\ log' = <<Ev("stateChanged", 0, "RUNNING"), Ev("stateChanged", 0, "IDLE"),
                           Ev("queueEmpty", 0, "")>>
               /\ currentEffect' = NoEffect /\ pending' = pending]_vars

\* start() was called on an idle engine with an empty queue
C7_Witness ==
    /\ Quiet /\ op.method = "start" /\ state = "IDLE" /\ hasFlashlight
    /\ Count(log, "queueEmpty") = 1
    /\ Count(log, "effectStarted") = 0
    /\ effectQueue = <<>>

\* C8: when a STROBE with frequencyHz = 0 becomes current the engine emits an error
\* event, does not command the actuator on for it and advances to the next effect
\* (or to IDLE) in the same call.
C8_InvalidStrobe ==
    \A k \in 1..Len(log) :
        log[k] = InvalidFrequency =>
            /\ k > 1 /\ log[k - 1].ev = "effectStarted"
            /\ k + 2 <= Len(log)
            /\ log[k + 1].ev = "error"
            /\ log[k + 2] = Ev("effectCompleted", log[k - 1].id, "")
            /\ k + 3 <= Len(log) /\ log[k + 3].ev \in {"effectStarted", "stateChanged"}

LastTorchCmd(l) ==
    LET ks == {k \in 1..Len(l) : l[k].ev = "setTorchMode"}
    IN  l[CHOOSE k \in ks : \A j \in ks : k >= j]

\* C9: when stop() returns the state is STOPPED, currentEffect is none,
\* effectStartTime and pausedElapsed are 0, no callback is pending and the last
\* actuator command is off.
C9_Stop ==
    [][Stop =>
        /\ pc'["caller"] = "idle"
        /\ state' = "STOPPED"
        /\ currentEffect' = NoEffect
        /\ effectStartTime' = 0 /\ pausedElapsed' = 0
        /\ pending' = <<>>
        /\ hasFlashlight => (LastTorchCmd(log') = TorchCmd(FALSE, TRUE) /\ torch' = FALSE)
        /\ ~hasFlashlight => torch' = FALSE]_vars

\* stop() ended a run that had a queued effect left and turned the torch off
C9_Witness ==
    /\ Quiet /\ op.method = "stop" /\ state = "STOPPED"
    /\ Emitted(log, TorchCmd(FALSE, TRUE))
    /\ effectQueue # <<>>
    /\ now > 1

TorchCmds(l) == SelectSeq(l, LAMBDA e : e.ev = "setTorchMode")

\* C10: forceOff() issues at most 3 off commands, none after the first that
\* succeeds, and returns normally also when all 3 fail or no flashlight exists.
C10_ForceOffRetries ==
    [][ForceOff =>
        LET cmds == TorchCmds(log')
        IN  /\ pc'["caller"] = "idle"
            /\ ~Emitted(log', Ev("exception", 0, "NullPointerException"))
            /\ Len(cmds) <= 3
            /\ \A k \in 1..Len(cmds) : cmds[k].st = "off"
            /\ \A k \in 1..(Len(cmds) - 1) : cmds[k].id = 0
            /\ hasFlashlight => (Len(cmds) >= 1 /\ (Len(cmds) < 3 => cmds[Len(cmds)].id = 1))
            /\ ~hasFlashlight => cmds = <<>>]_vars

\* forceOff() gave up after three rejected commands and left the torch on
C10_Witness ==
    /\ Quiet /\ op.method = "forceOff"
    /\ TorchCmds(log) = <<TorchCmd(FALSE, FALSE), TorchCmd(FALSE, FALSE), TorchCmd(FALSE, FALSE)>>
    /\ torch = TRUE

\* C11: forceOff() in any state leaves getState() as it was, emits no stateChanged
\* event and cancels every pending timing callback.
C11_ForceOffKeepsState ==
    [][ForceOff => /\ state' = state
                   /\ Count(log', "stateChanged") = 0
                   /\ pending' = <<>>
                   /\ currentStrobeRunnable' = NoRunnable]_vars

\* forceOff() cut a running effect short: its callback is gone, the state still RUNNING
C11_Witness ==
    /\ Quiet /\ op.method = "forceOff"
    /\ state = "RUNNING" /\ currentEffect # NoEffect
    /\ pending = <<>> /\ Emitted(log, Ev("removeCallbacks", 0, ""))
    /\ ~isRunning

IsPrefix(p, q) == Len(p) <= Len(q) /\ SubSeq(q, 1, Len(p)) = p

\* C12: without a flashlight start(), called directly or by the auto-start of
\* enqueue/enqueueAll, emits an error event and leaves state and currentEffect
\* unchanged, pops nothing from the queue and emits no effectStarted or stateChanged.
C12_Unavailable ==
    [][(~hasFlashlight /\ (Start \/ Enqueue \/ EnqueueAll)) =>
        /\ Count(log', "error") = 1
        /\ Count(log', "effectStarted") = 0 /\ Count(log', "stateChanged") = 0
        /\ state' = state /\ currentEffect' = currentEffect
        /\ IsPrefix(effectQueue, effectQueue')
        /\ Start => effectQueue' = effectQueue]_vars

\* an enqueue on an engine without a flashlight reported the error and staged the effect
C12_Witness ==
    /\ Quiet /\ ~hasFlashlight /\ op.method = "enqueue"
    /\ Count(log, "error") = 1
    /\ Len(effectQueue) = 2 /\ state = "IDLE" /\ currentEffect = NoEffect

FailedToggle(k) ==
    /\ log[k].ev = "setTorchMode" /\ log[k].id = 0
    /\ op.method # "forceOff"

Scheduling == isRunning /\ ~isPaused

\* C13: a failed actuator command of a toggle is reported through an error event,
\* and scheduling goes on as if it had succeeded: the current effect keeps its
\* callback, and the callback that ends it emits effectCompleted and starts the
\* next effect (or reports queueEmpty).
C13_FaultTolerant ==
    /\ [](\A k \in 1..Len(log) :
             FailedToggle(k) => (k < Len(log) /\ log[k + 1].ev = "error"))
    /\ []((Quiet /\ Scheduling) => (currentEffect # NoEffect /\ Len(pending) = 1))
    /\ [][(Timer /\ Scheduling) =>
            \/ currentEffect' = currentEffect /\ Len(pending') = 1
            \/ /\ Emitted(log', Ev("effectCompleted", currentEffect.id, ""))
               /\ IF effectQueue # <<>>
                  THEN Emitted(log', Ev("effectStarted", Head(effectQueue).id, ""))
                  ELSE Emitted(log', Ev("queueEmpty", 0, ""))]_vars

Enqueues == Enqueue \/ EnqueueAll

AutoStartable == state = "IDLE" \/ (state = "PAUSED" /\ effectQueue = <<>>)

\* C14: enqueue or enqueueAll on an engine that is IDLE, or PAUSED with an empty
\* queue, and not stopped, calls start(): the engine goes RUNNING and starts an
\* effect within the same call.
C14_AutoStart ==
    [][(Enqueues /\ hasFlashlight /\ ~isStopped /\ AutoStartable) =>
        /\ Emitted(log', Ev("stateChanged", 0, "RUNNING"))
        /\ Count(log', "effectStarted") >= 1]_vars

\* C15: after stop() (state STOPPED) enqueue and enqueueAll only append to the
\* queue: start() is not called and no effect starts.
C15_StagingAfterStop ==
    [][(Enqueues /\ hasFlashlight /\ state = "STOPPED" /\ isStopped) =>
        /\ log' = <<>>
        /\ state' = "STOPPED" /\ currentEffect' = NoEffect
        /\ IsPrefix(effectQueue, effectQueue')
        /\ Len(effectQueue') > Len(effectQueue)]_vars

Queued(id) == \E k \in 1..Len(effectQueue) : effectQueue[k].id = id

\* the caller is inside enqueueAll, has offered the first effect of its batch and not
\* yet the second
MidBatch == pc["caller"] = "enqueueAll_126" /\ Len(loc["caller"].effects) = 1

\* C16: enqueueAll is atomic towards the scheduler: no effect of a batch is popped
\* before the whole batch is in the queue.
C16_BatchAtomic == MidBatch => Queued(Head(loc["caller"].effects).id - 1)

\* C17: clearQueue() empties the queue and leaves the current effect, its pending
\* callback, the actuator and the state as they are; when that callback ends the
\* effect, effectCompleted and queueEmpty are emitted.
C17_ClearQueue ==
    /\ [][ClearQueue =>
            /\ effectQueue' = <<>>
            /\ log' = <<>>
            /\ UNCHANGED <<currentEffect, pending, currentStrobeRunnable, torch, isFlashOn,
                           state, isPaused, isStopped, isRunning, effectStartTime,
                           pausedElapsed>>]_vars
    /\ [][(Timer /\ Scheduling /\ effectQueue = <<>>) =>
            \/ currentEffect' = currentEffect /\ Len(pending') = 1
            \/ /\ Emitted(log', Ev("effectCompleted", currentEffect.id, ""))
               /\ Emitted(log', Ev("queueEmpty", 0, ""))
               /\ state' = "IDLE"]_vars

\* clearQueue() removed effect 2 while effect 1 was executing
C17_Witness ==
    /\ Quiet /\ op.method = "clearQueue"
    /\ effectQueue = <<>> /\ nextId = 3
    /\ currentEffect.id = 1 /\ state = "RUNNING" /\ Len(pending) = 1

\* C18: fromJson(toJson(e)) has the id, type, durationMs, frequency and intensity
\* of e, for every effect e the plugin builds.
C18_RoundTrip ==
    wire.stage = "reparsed" =>
        /\ wire.effect.id = wire.sent.id
        /\ wire.effect.type = wire.sent.type
        /\ wire.effect.durationMs = wire.sent.durationMs
        /\ wire.effect.frequency = wire.sent.frequency
        /\ wire.effect.intensity = wire.sent.intensity

\* an effect sent without id and with defaults taken came back with its generated id
C18_Witness ==
    /\ wire.stage = "reparsed"
    /\ wire.sent.id = "effect_1_4242" /\ wire.effect.id = "effect_1_4242"
    /\ wire.effect.type = "STROBE" /\ wire.effect.durationMs = 10
    /\ wire.effect.frequency = 125 /\ wire.effect.intensity = 10

Invoked(m) == \E k \in 1..Len(service.invoked) : service.invoked[k] = m

\* C19: cleanup() never rejects; whatever stop() and clearQueue() do, it invokes
\* forceOff on the plugin and ends with the native queue empty and isOn false.
C19_Cleanup ==
    [][Cleanup => /\ service'.outcome = "resolved"
                  /\ Invoked("forceOff")'
                  /\ effectQueue' = <<>>
                  /\ ~service'.isOn]_vars

\* the cap the README states, in Hz
MaxSafeFrequency == 15

\* C20: the toggle loop of an accepted STROBE effect never runs faster than 15 Hz:
\* one on/off cycle (two half-periods) of a scheduled loop takes at least 1000/15 ms.
C20_FrequencyCap ==
    \A k \in 1..Len(pending) :
        pending[k].r.kind = "loop" =>
            MaxSafeFrequency * 2 * pending[k].r.halfPeriod >= 1000

\* C21: SessionPlayer is shown only when the seizure warning has been accepted and
\* a pack is selected, whatever the navigation before.
C21_SessionGuarded ==
    Shown(app) = "SessionPlayer" => (app.accepted /\ app.pack # "none")

\* a session runs in the router app, entered through the preview
C21_Witness ==
    /\ Shown(app) = "SessionPlayer" /\ app.variant = "router"
    /\ app.hist # <<>> /\ app.hist[Len(app.hist)] = "/preview"

\* the sum of the durations of the first i phases
Before(pack, i) == getPackDuration([phases |-> SubSeq(pack.phases, 1, i)])

\* phase i (counted from 0) owns the times from its start up to, but not
\* including, its end
Owns(pack, i, t) == Before(pack, i) <= t /\ t < Before(pack, i + 1)

\* C22: for a pack of phases d1..dn and an elapsed time t >= 0,
\* getCurrentPhase returns, when t is below the total duration, the one
\* phase whose cumulative interval [start, end) contains t, with
\* phaseElapsed = t - start; and when t is at or beyond the total, the last
\* phase with phaseProgress = 1.
C22_CurrentPhase ==
    (app.variant = "player" /\ app.phaseInfo # NoPhaseInfo) =>
        LET pack == app.pack
            t == app.elapsed
            info == app.phaseInfo
            n == Len(pack.phases)
        IN  IF t < getPackDuration(pack)
            THEN /\ info.phaseIndex \in 0..(n - 1)
                 /\ \A i \in 0..(n - 1) : Owns(pack, i, t) <=> i = info.phaseIndex
                 /\ info.phaseElapsed = t - Before(pack, info.phaseIndex)
                 /\ info.phase = pack.phases[info.phaseIndex + 1]
            ELSE /\ info.phaseIndex = n - 1
                 /\ info.phase = pack.phases[n]
                 /\ info.phaseProgress.num = info.phaseProgress.den

\* the phase was computed at the very instant the first of several phases ends
C22_Witness ==
    /\ app.variant = "player"
    /\ app.phaseInfo # NoPhaseInfo
    /\ Len(app.pack.phases) >= 2
    /\ app.elapsed = app.pack.phases[1].duration
    /\ app.phaseInfo.phaseIndex = 1
    /\ app.phaseInfo.phaseElapsed = 0

\* what the listener is told, in order
Notified(l) ==
    SelectSeq(l, LAMBDA e : e.ev \in {"stateChanged", "effectStarted", "effectCompleted",
                                      "queueEmpty", "error"})

\* a timer callback completes the current effect
CompletesCurrent ==
    /\ Timer
    /\ currentEffect # NoEffect
    /\ Emitted(log', Ev("effectCompleted", currentEffect.id, ""))

\* effect e, started now, has all of e.durationMs ahead of it: an ON or OFF is
\* completed by the one callback due then, a STROBE with a half-period toggles
\* until then (a PULSE is not bound to its duration, a STROBE without a
\* half-period is skipped)
FullDuration(e) ==
    /\ effectStartTime' = now
    /\ e.type \in {"ON", "OFF"} =>
          /\ currentEffect' = e
          /\ Len(pending') = 1
          /\ pending'[1].r.kind = "complete"
          /\ pending'[1].due = now + e.durationMs
    /\ (e.type = "STROBE" /\ getHalfPeriodMs(e) > 0) =>
          /\ currentEffect' = e
          /\ Len(pending') = 1
          /\ pending'[1].r.kind = "loop"
          /\ pending'[1].r.endTime = now + e.durationMs

\* C23: when effect e completes naturally, effectCompleted(e) is the first thing
\* the listener is told; then, the queue being empty, the state becomes IDLE and
\* queueEmpty is emitted exactly once; otherwise effectStarted(next) follows and
\* next runs with its full durationMs.
C23_AdvanceToNext ==
    [][CompletesCurrent =>
        LET told == Notified(log')
        IN  /\ told[1] = Ev("effectCompleted", currentEffect.id, "")
            /\ IF effectQueue = <<>>
               THEN /\ state' = "IDLE"
                    /\ Count(log', "queueEmpty") = 1
                    /\ Count(log', "effectStarted") = 0
               ELSE /\ Len(told) >= 2
                    /\ told[2] = Ev("effectStarted", Head(effectQueue).id, "")
                    /\ FullDuration(Head(effectQueue))]_vars

\* the first effect has completed naturally and the second, which was waiting,
\* is running
C23_Witness ==
    /\ Quiet /\ op.thread = "timer"
    /\ Len(Notified(log)) >= 2
    /\ Notified(log)[1] = Ev("effectCompleted", 1, "")
    /\ Notified(log)[2] = Ev("effectStarted", 2, "")
    /\ currentEffect.id = 2 /\ state = "RUNNING"

\* resume() finds the paused current effect with no time left
ResumesSpent ==
    /\ Resume
    /\ isPaused /\ state = "PAUSED"
    /\ currentEffect # NoEffect
    /\ currentEffect.durationMs - pausedElapsed <= 0

\* C24: resume() while PAUSED with durationMs - pausedElapsedMs <= 0 emits
\* effectCompleted for the current effect and then advances as on natural
\* completion: to IDLE with one queueEmpty when nothing is queued, to
\* effectStarted(next) otherwise.
C24_ResumeSpent ==
    [][ResumesSpent =>
        LET told == Notified(log')
            done == Ev("effectCompleted", currentEffect.id, "")
        IN  /\ Emitted(told, done)
            /\ \A k \in 1..Len(told) :
                  told[k] = done =>
                     /\ k < Len(told)
                     /\ told[k + 1] = (IF effectQueue = <<>>
                                       THEN Ev("stateChanged", 0, "IDLE")
                                       ELSE Ev("effectStarted", Head(effectQueue).id, ""))]_vars

\* a step taken while the engine is PAUSED that is not the resume() call
InPause == state = "PAUSED" /\ isPaused /\ BothIdle /\ op'.method # "resume"

\* resume() re-enters a STROBE of half-period h > 0 that has run for ran < durationMs
ResumesRunStrobe ==
    /\ Resume
    /\ isPaused /\ state = "PAUSED"
    /\ currentEffect.type = "STROBE"
    /\ getHalfPeriodMs(currentEffect) > 0
    /\ ran < currentEffect.durationMs

\* the first half of C25: nothing happens in the gap
C25_NothingInPause ==
    [][InPause =>
        /\ TorchCmds(log') = <<>>
        /\ Count(log', "effectStarted") = 0
        /\ Count(log', "effectCompleted") = 0
        /\ Count(log', "queueEmpty") = 0]_vars

\* C25: between pause() returning and the next resume(), however long the gap, no
\* actuator command is issued and no effectStarted, effectCompleted or queueEmpty
\* is emitted; a STROBE paused at elapsed e then toggles for durationMs - e after
\* the resume.
C25_QuietPause ==
    /\ C25_NothingInPause
    /\ [][ResumesRunStrobe =>
            /\ Len(pending') = 1
            /\ pending'[1].r.kind = "loop"
            /\ pending'[1].r.endTime - now = currentEffect.durationMs - ran]_vars

\* the positions in l of the acts named name
Positions(l, name) == {k \in 1..Len(l) : l[k].ev = name}

\* pause() takes effect on an engine with a flashlight and a callback to cancel
PausesRunning ==
    /\ Pause
    /\ isRunning /\ ~isPaused
    /\ hasFlashlight
    /\ currentStrobeRunnable # NoRunnable

\* C26: inside pause() the pending timing callbacks of the current effect are
\* cancelled before the actuator-off command is issued.
C26_CancelBeforeOff ==
    [][PausesRunning =>
        /\ Positions(log', "removeCallbacks") # {}
        /\ Positions(log', "setTorchMode") # {}
        /\ \A c \in Positions(log', "removeCallbacks"), o \in Positions(log', "setTorchMode") :
              c < o]_vars

\* the caller's latest call was stop() and it has returned
Stopped == returned = "stop"

\* C27: under every interleaving, once stop() has returned and until the caller's
\* next call, no effectStarted, effectCompleted or queueEmpty is emitted, no
\* effect is popped from the queue and currentEffect stays none: a callback that
\* escaped the cancellation sees the stop flag and does nothing.
C27_StopIsFinal ==
    /\ [](Stopped => currentEffect = NoEffect)
    /\ [][(Stopped /\ Stopped') =>
            /\ Count(log', "effectStarted") = 0
            /\ Count(log', "effectCompleted") = 0
            /\ Count(log', "queueEmpty") = 0
            /\ effectQueue' = effectQueue]_vars

\* C28: every actuator command and every queue mutation is performed on the
\* StrobeEngineThread; a call made on another thread is marshalled onto it and
\* touches neither the actuator nor the queue from the caller's thread.
C28_SingleContext ==
    [][(TorchCmds(log') # <<>> \/ effectQueue' # effectQueue) => op'.thread = "timer"]_vars

\* the length of the blip of PULSE effect e
PulseMs(e) == IF e.frequency <= 0 THEN DefaultPulseMs ELSE getHalfPeriodMs(e)

Ons(l) == SelectSeq(TorchCmds(l), LAMBDA c : c.st = "on")

\* a PULSE becomes the current effect
StartsPulse ==
    /\ currentEffect'.type = "PULSE"
    /\ Emitted(log', Ev("effectStarted", currentEffect'.id, ""))

\* the callback of a PULSE runs
EndsPulse ==
    /\ Timer
    /\ pending[NextMessage(Pack)].r.kind = "pulse"

\* resume() finds a PULSE paused in mid-blip
ResumesPulse ==
    /\ Resume
    /\ isPaused /\ state = "PAUSED"
    /\ currentEffect.type = "PULSE"

\* the first half of C29: the blip of a PULSE that is not paused
C29_Blip ==
    /\ [][StartsPulse =>
            /\ Len(TorchCmds(log')) = 1 /\ Len(Ons(log')) = 1
            /\ Len(pending') = 1
            /\ pending'[1].r.kind = "pulse"
            /\ pending'[1].due = now + PulseMs(currentEffect')]_vars
    /\ [][EndsPulse =>
            /\ Len(TorchCmds(log')) >= 1 /\ TorchCmds(log')[1].st = "off"
            /\ Count(log', "effectCompleted") = 1
            /\ Notified(log')[1] = Ev("effectCompleted", currentEffect.id, "")]_vars

\* C29: a PULSE commands the actuator on once and, one half-period later (50 ms
\* when frequency <= 0) and whatever its durationMs, off, and advances: a single
\* on/off blip and a single effectCompleted, also when it is paused and resumed
\* in between (the resume does not command the actuator on a second time).
C29_Pulse ==
    /\ C29_Blip
    /\ [][ResumesPulse => Ons(log') = <<>>]_vars

\* a STROBE with a half-period becomes the current effect
StartsStrobe ==
    /\ currentEffect'.type = "STROBE"
    /\ getHalfPeriodMs(currentEffect') > 0
    /\ Emitted(log', Ev("effectStarted", currentEffect'.id, ""))

\* the looper delivers the strobe's callback, on time
LoopCallback ==
    /\ Timer
    /\ pending[NextMessage(Pack)].r.kind = "loop"

\* the strobe's next callback r is posted for min(h, endTime - now) from now, not
\* past endTime, and will command the value on
NextToggle(h, endTime, on) ==
    /\ Len(pending') = 1
    /\ pending'[1].r.kind = "loop"
    /\ pending'[1].r.halfPeriod = h
    /\ pending'[1].r.endTime = endTime
    /\ pending'[1].r.turnOn = on
    /\ pending'[1].due = now + (IF h <= endTime - now THEN h ELSE endTime - now)
    /\ pending'[1].due <= endTime

\* C30: a STROBE with half-period h > 0 and budget R, run without interruption
\* on ideal timers, commands the actuator on first and flips it at every
\* callback; each callback is posted min(h, endTime - now) ahead, none past
\* endTime = start + R; at endTime the actuator is commanded off and the effect
\* completes, having lasted exactly R.
C30_StrobeLoop ==
    /\ [][StartsStrobe =>
            /\ LastTorchCmd(log').st = "on"
            /\ effectStartTime' = now
            /\ NextToggle(getHalfPeriodMs(currentEffect'),
                          now + currentEffect'.durationMs, FALSE)]_vars
    /\ [][LoopCallback =>
            LET m == pending[NextMessage(Pack)]
                cmds == TorchCmds(log')
            IN  /\ m.due = now
                /\ currentEffect.type = "STROBE"
                /\ m.r.endTime = effectStartTime + currentEffect.durationMs
                /\ Len(cmds) >= 1
                /\ IF now < m.r.endTime
                   THEN /\ m.r.turnOn = ~torch
                        /\ cmds = <<TorchCmd(m.r.turnOn, TRUE)>>
                        /\ log' = cmds
                        /\ NextToggle(m.r.halfPeriod, m.r.endTime, ~m.r.turnOn)
                   ELSE /\ now = m.r.endTime
                        /\ cmds[1] = TorchCmd(FALSE, TRUE)
                        /\ log'[1] = cmds[1]
                        /\ log'[2] = Ev("effectCompleted", currentEffect.id, "")]_vars

\* a strobe of 3 ms has been switched off and completed by its callback 3 ms
\* after it started, and nothing was queued behind it
C30_Witness ==
    /\ Quiet /\ state = "IDLE"
    /\ op = [thread |-> "timer", method |-> "strobeLoop"]
    /\ Emitted(log, Ev("effectCompleted", 1, ""))
    /\ now = effectStartTime + 3

\* the effect numbered id was started and at once given up for its frequency
Skipped(l, id) ==
    \E k \in 1..(Len(l) - 1) :
        l[k] = Ev("effectStarted", id, "") /\ l[k + 1] = InvalidFrequency

\* the STROBE at the head of the queue becomes the current effect
StartsQueuedStrobe ==
    /\ effectQueue # <<>>
    /\ Head(effectQueue).type = "STROBE"
    /\ Emitted(log', Ev("effectStarted", Head(effectQueue).id, ""))

\* C31: a STROBE is skipped as a configuration error if and only if its
\* frequencyHz <= 0; with any frequencyHz > 0 it runs the toggle loop with
\* half-period 1000 / frequencyHz / 2 ms.
C31_SkippedIffNoFrequency ==
    [][StartsQueuedStrobe =>
        LET e == Head(effectQueue)
        IN  /\ Skipped(log', e.id) <=> e.frequency <= 0
            /\ e.frequency > 0 =>
                  /\ currentEffect' = e
                  /\ Len(pending') = 1
                  /\ pending'[1].r.kind = "loop"
                  /\ pending'[1].r.halfPeriod * 2 * e.frequency = 1000]_vars

\* C32: after every sequence of engine operations and timer callbacks, each run
\* to its end, currentEffect is set only if getState() is RUNNING or PAUSED; in
\* IDLE and STOPPED it is none.
C32_CurrentEffect ==
    (Quiet /\ currentEffect # NoEffect) => state \in {"RUNNING", "PAUSED"}

\* an effect is current while the engine is PAUSED
C32_Witness == Quiet /\ currentEffect # NoEffect /\ state = "PAUSED"

\* pause() takes effect while an effect is current
PausesCurrent ==
    /\ Pause
    /\ isRunning /\ ~isPaused
    /\ currentEffect # NoEffect

\* resume() finds the paused current effect with time left
ResumesLive ==
    /\ Resume
    /\ isPaused /\ state = "PAUSED"
    /\ currentEffect # NoEffect
    /\ currentEffect.durationMs - pausedElapsed > 0

\* how often the listener is told e in l
Times(l, e) == Cardinality({k \in 1..Len(l) : l[k] = e})

\* C33: pause() and the resume() that follows it with time left leave
\* currentEffect and the queue as they were and emit no second effectStarted
\* for the current effect; the effect then has one completion callback pending
\* and ends with exactly one effectCompleted.
C33_PauseRetains ==
    /\ [][PausesCurrent =>
            /\ currentEffect' = currentEffect /\ effectQueue' = effectQueue
            /\ state' = "PAUSED"
            /\ Count(log', "effectStarted") = 0
            /\ Count(log', "effectCompleted") = 0]_vars
    /\ [][ResumesLive =>
            /\ currentEffect' = currentEffect /\ effectQueue' = effectQueue
            /\ state' = "RUNNING"
            /\ Count(log', "effectStarted") = 0
            /\ Count(log', "effectCompleted") = 0
            /\ Len(pending') = 1]_vars
    /\ [][CompletesCurrent =>
            Times(log', Ev("effectCompleted", currentEffect.id, "")) = 1]_vars

\* an effect has been resumed with time left while another waits in the queue
C33_Witness ==
    /\ Quiet /\ op = [thread |-> "caller", method |-> "resume"]
    /\ state = "RUNNING"
    /\ currentEffect # NoEffect /\ effectQueue # <<>>
    /\ pausedElapsed > 0
    /\ Len(pending) = 1

\* the field k of the effect made equals the number the caller gave, or the
\* default d (in tenths) when the caller gave none
Reaches(k, d) ==
    wire.effect[k] = (IF has(wire.given, k) THEN wire.given[k].n ELSE d)

\* C34: along flashlightService.enqueue -> FlashlightPlugin.enqueue ->
\* StrobeEffect.fromJson an omitted field gets its default (type STROBE,
\* durationMs 1000, frequency 10, intensity 1.0) and every value the caller
\* supplies, 0 included, reaches the engine unchanged.
C34_Defaults ==
    wire.stage = "produced" =>
        /\ wire.effect.type = (IF has(wire.given, "type") THEN wire.given["type"].s
                               ELSE "STROBE")
        /\ Reaches("durationMs", 10000)
        /\ Reaches("frequency", 100)
        /\ Reaches("intensity", 10)

\* C35: an ON, OFF or STROBE effect of duration D has spent exactly D in state
\* RUNNING when it completes, after any number of pause()/resume() cycles: time
\* run before an earlier pause is not granted again.
C35_TimeConserved ==
    [][(CompletesCurrent /\ currentEffect.type \in {"ON", "OFF", "STROBE"})
          => ran = currentEffect.durationMs]_vars

\* C36: with enqueue calls only, under every interleaving of the caller thread
\* with the timer thread, the engine never rests in IDLE with a non-empty queue
\* (so that every enqueued effect is started).
C36_NoStrandedWork ==
    (BothIdle /\ state = "IDLE") => effectQueue = <<>>

\* C37: under every interleaving of caller-thread operations with timer
\* callbacks at most one timing callback is pending at any time, and one is
\* pending only while getState() is RUNNING: two effects never execute at once.
C37_SingleActive ==
    /\ Len(pending) <= 1
    /\ pending # <<>> => state = "RUNNING"

\* the current effect e stops being current, and not by a stop()
LeavesCurrent ==
    /\ currentEffect # NoEffect
    /\ currentEffect' # currentEffect
    /\ op'.method # "stop"

\* C38: with no forceOff(), an effect e that was started stops being current
\* only through stop() or with exactly one effectCompleted(e), emitted before
\* any other effectStarted; start() while PAUSED does not drop the paused effect
\* without a completion event.
C38_EventPairing ==
    [][LeavesCurrent =>
        LET told == Notified(log')
            done == Ev("effectCompleted", currentEffect.id, "")
        IN  /\ Times(told, done) = 1
            /\ \A k \in 1..Len(told) :
                  told[k].ev = "effectStarted" => \E j \in 1..(k - 1) : told[j] = done]_vars

\* C39: after any sequence of operations, forceOff() included, pause() called
\* while getState() returns RUNNING moves the engine to PAUSED, and resume()
\* called while it returns PAUSED moves it to RUNNING.
C39_StateMatches ==
    /\ [][(Pause /\ state = "RUNNING") => state' = "PAUSED"]_vars
    /\ [][(Resume /\ state = "PAUSED")
            => Emitted(log', Ev("stateChanged", 0, "RUNNING"))]_vars

\* the engine is at rest: IDLE, nothing queued, nothing scheduled
AtRest == state = "IDLE" /\ effectQueue = <<>> /\ pending = <<>>

\* C40: once started on a finite queue of effects of finite duration, with
\* timers firing and no call other than enqueues, the engine eventually reaches
\* IDLE with an empty queue and no pending callback, and emits queueEmpty
\* exactly once on getting there.
C40_Termination ==
    /\ (state = "RUNNING") ~> AtRest
    /\ [][(state = "RUNNING" /\ state' = "IDLE")
            => (AtRest' /\ Count(log', "queueEmpty") = 1)]_vars

\* three effects have been created and the callback of the last one has found
\* the queue empty
C40_Witness ==
    /\ AtRest
    /\ nextId = MaxLiveEffects + 1
    /\ op.thread = "timer"
    /\ Emitted(log, Ev("effectCompleted", MaxLiveEffects, ""))
    /\ Emitted(log, Ev("queueEmpty", 0, ""))

====
